---- MODULE Spec2Model ----
(***************************************************************************)
(* Model of the OSM provider's chat language model: the streaming          *)
(* response transformer (doStream: transform + flush), the non-streaming   *)
(* response mapper (doGenerate) and the usage / finish-reason helpers.     *)
(*                                                                         *)
(* Optional JavaScript values (undefined / null / absent) are modelled as  *)
(* sequences of length at most one: None is <<>>, Some(x) is <<x>>.        *)
(* Tool-call argument strings are sequences of characters so that          *)
(* isParsableJson can be computed; other strings are TLA+ strings.         *)
(***************************************************************************)
EXTENDS Integers, Sequences, FiniteSets, TLC

\* ------------------------------------------------------------------ bounds
\* number of upstream chunks delivered to one stream before it ends
MaxChunks == 3
\* highest tool-call index a chunk may name
MaxIndex == 1
\* largest token count in a usage object handed to computeTokenUsage directly
MaxTokens == 2
\* most calls of the usage normalizer one caller makes
MaxCalls == 2

\* chunks each of two concurrent streams receives
MaxConcurrentChunks == 2

\* ------------------------------------------------------- optional values
None == <<>>

Some(x) == <<x>>

IsSome(o) == o # <<>>

Val(o) == o[1]

\* JavaScript truthiness of an optional string
Truthy(o) == IsSome(o) /\ Val(o) # ""

\* a || b on optional strings
OrElse(a, b) == IF Truthy(a) THEN a ELSE b

\* (a || '') on an optional string
OrEmpty(o) == IF Truthy(o) THEN Val(o) ELSE ""

\* a ?? d on an optional value
Coalesce(o, d) == IF IsSome(o) THEN Val(o) ELSE d

\* --------------------------------------------------------- isParsableJson
\* Argument text is written over the characters "{", "}" and "1".  Over
\* this alphabet JSON.parse accepts exactly the empty object "{}" and the
\* numbers "1", "11", ...
IsParsableJson(str) ==
    \/ str = <<"{", "}">>
    \/ Len(str) >= 1 /\ \A i \in 1..Len(str) : str[i] = "1"

EmptyObjectLiteral == <<"{", "}">>

\* ---------------------------------------------------- finish-reason mapper
createFinishReason(unified, raw) == [unified |-> unified, raw |-> raw]

\* vendor finish_reason (optional string) -> {unified, raw}
mapOsmFinishReason(fr) ==
    LET unified ==
            IF fr = Some("stop") THEN "stop"
            ELSE IF fr = Some("length") THEN "length"
            ELSE IF fr = Some("content_filter") THEN "content-filter"
            ELSE IF fr = Some("tool_calls") THEN "tool-calls"
            ELSE "other"
    IN  createFinishReason(unified, fr)

\* -------------------------------------------------------- usage normalizer
\* vendor usage object; every field optional, the detail objects optional
\* as a whole (hasPromptDetails / hasCompletionDetails)
UsageObject(pt, ct, hasPd, cached, cacheWrite, hasCd, reasoningTok, cost, total, upstreamCost) ==
    [ prompt_tokens |-> pt, completion_tokens |-> ct,
      hasPromptDetails |-> hasPd, cached_tokens |-> cached,
      cache_write_tokens |-> cacheWrite,
      hasCompletionDetails |-> hasCd, reasoning_tokens |-> reasoningTok,
      cost |-> cost, total_tokens |-> total,
      upstream_inference_cost |-> upstreamCost ]

\* a plausible slip: the uncached input count is clamped at zero
computeTokenUsage_Clamped(u) ==
    LET promptTokens == Coalesce(u.prompt_tokens, 0)
        completionTokens == Coalesce(u.completion_tokens, 0)
        cacheReadTokens ==
            IF u.hasPromptDetails THEN Coalesce(u.cached_tokens, 0) ELSE 0
        reasoningTokens ==
            IF u.hasCompletionDetails THEN Coalesce(u.reasoning_tokens, 0) ELSE 0
    IN  [ inputTokens |->
            [ total |-> Some(promptTokens),
              noCache |-> Some(IF promptTokens < cacheReadTokens THEN 0
                               ELSE promptTokens - cacheReadTokens),
              cacheRead |-> Some(cacheReadTokens),
              cacheWrite |-> IF u.hasPromptDetails THEN u.cache_write_tokens
                             ELSE None ],
          outputTokens |->
            [ total |-> Some(completionTokens),
              text |-> Some(completionTokens - reasoningTokens),
              reasoning |-> Some(reasoningTokens) ],
          raw |-> Some(u) ]

\* a plausible slip: without completion details, reasoning stays undefined
computeTokenUsage_ReasoningOptional(u) ==
    LET promptTokens == Coalesce(u.prompt_tokens, 0)
        completionTokens == Coalesce(u.completion_tokens, 0)
        cacheReadTokens ==
            IF u.hasPromptDetails THEN Coalesce(u.cached_tokens, 0) ELSE 0
        reasoningTokens ==
            IF u.hasCompletionDetails THEN u.reasoning_tokens ELSE None
    IN  [ inputTokens |->
            [ total |-> Some(promptTokens),
              noCache |-> Some(promptTokens - cacheReadTokens),
              cacheRead |-> Some(cacheReadTokens),
              cacheWrite |-> IF u.hasPromptDetails THEN u.cache_write_tokens
                             ELSE None ],
          outputTokens |->
            [ total |-> Some(completionTokens),
              text |-> Some(completionTokens - Coalesce(reasoningTokens, 0)),
              reasoning |-> reasoningTokens ],
          raw |-> Some(u) ]

\* a plausible slip: cache writes default to 0 and count as cached input
computeTokenUsage_CacheWriteCounted(u) ==
    LET promptTokens == Coalesce(u.prompt_tokens, 0)
        completionTokens == Coalesce(u.completion_tokens, 0)
        cacheReadTokens ==
            IF u.hasPromptDetails THEN Coalesce(u.cached_tokens, 0) ELSE 0
        cacheWriteTokens ==
            IF u.hasPromptDetails THEN Coalesce(u.cache_write_tokens, 0) ELSE 0
        reasoningTokens ==
            IF u.hasCompletionDetails THEN Coalesce(u.reasoning_tokens, 0) ELSE 0
    IN  [ inputTokens |->
            [ total |-> Some(promptTokens),
              noCache |-> Some(promptTokens - cacheReadTokens - cacheWriteTokens),
              cacheRead |-> Some(cacheReadTokens),
              cacheWrite |-> Some(cacheWriteTokens) ],
          outputTokens |->
            [ total |-> Some(completionTokens),
              text |-> Some(completionTokens - reasoningTokens),
              reasoning |-> Some(reasoningTokens) ],
          raw |-> Some(u) ]

computeTokenUsage(u) ==
    LET promptTokens == Coalesce(u.prompt_tokens, 0)
        completionTokens == Coalesce(u.completion_tokens, 0)
        cacheReadTokens ==
            IF u.hasPromptDetails THEN Coalesce(u.cached_tokens, 0) ELSE 0
        cacheWriteTokens ==
            IF u.hasPromptDetails THEN u.cache_write_tokens ELSE None
        reasoningTokens ==
            IF u.hasCompletionDetails THEN Coalesce(u.reasoning_tokens, 0) ELSE 0
    IN  [ inputTokens |->
            [ total |-> Some(promptTokens),
              noCache |-> Some(promptTokens - cacheReadTokens),
              cacheRead |-> Some(cacheReadTokens),
              cacheWrite |-> cacheWriteTokens ],
          outputTokens |->
            [ total |-> Some(completionTokens),
              text |-> Some(completionTokens - reasoningTokens),
              reasoning |-> Some(reasoningTokens) ],
          raw |-> Some(u) ]

emptyUsage ==
    [ inputTokens |->
        [ total |-> Some(0), noCache |-> None, cacheRead |-> None,
          cacheWrite |-> None ],
      outputTokens |-> [ total |-> Some(0), text |-> None, reasoning |-> None ],
      raw |-> None ]

\* Object.assign(target, source): every own property of source is copied,
\* also the ones whose value is undefined
ObjectAssign(target, source) ==
    [f \in DOMAIN target |-> IF f \in DOMAIN source THEN source[f] ELSE target[f]]

\* -------------------------------------------------------- reasoning details
\* ReasoningDetailUnion: the variants reasoning.text, reasoning.summary and
\* reasoning.encrypted share one record shape; unused fields are None
TextDetail(text, signature, format) ==
    [ type |-> "reasoning.text", text |-> text, signature |-> signature,
      format |-> format, summary |-> None, data |-> None ]

SummaryDetail(summary) ==
    [ type |-> "reasoning.summary", text |-> None, signature |-> None,
      format |-> None, summary |-> summary, data |-> None ]

EncryptedDetail(data) ==
    [ type |-> "reasoning.encrypted", text |-> None, signature |-> None,
      format |-> None, summary |-> None, data |-> data ]

\* (d) => d.type === ReasoningDetailType.Encrypted && d.data
IsEncryptedWithData(d) == d.type = "reasoning.encrypted" /\ Truthy(d.data)

hasEncryptedReasoning(details) ==
    \E i \in 1..Len(details) : IsEncryptedWithData(details[i])

\* a plausible slip: every fragment becomes an entry of its own
MergeReasoningDetail_AlwaysAppend(acc, detail) == Append(acc, detail)

\* one step of the merge loop over delta.reasoning_details
MergeReasoningDetail(acc, detail) ==
    IF detail.type = "reasoning.text"
    THEN IF Len(acc) > 0 /\ acc[Len(acc)].type = "reasoning.text"
         THEN LET lastDetail == acc[Len(acc)]
                  merged ==
                      [ lastDetail EXCEPT
                          !.text = Some(OrEmpty(lastDetail.text) \o OrEmpty(detail.text)),
                          !.signature = OrElse(lastDetail.signature, detail.signature),
                          !.format = OrElse(lastDetail.format, detail.format) ]
              IN  [acc EXCEPT ![Len(acc)] = merged]
         ELSE Append(acc, detail)
    ELSE Append(acc, detail)

RECURSIVE MergeReasoningDetails(_, _)
MergeReasoningDetails(acc, details) ==
    IF details = <<>> THEN acc
    ELSE MergeReasoningDetails(MergeReasoningDetail(acc, Head(details)), Tail(details))

\* the text a reasoning detail contributes to the reasoning block, if any
ReasoningChunkText(detail) ==
    IF detail.type = "reasoning.text"
    THEN (IF Truthy(detail.text) THEN Some(Val(detail.text)) ELSE None)
    ELSE IF detail.type = "reasoning.encrypted"
    THEN (IF Truthy(detail.data) THEN Some("[REDACTED]") ELSE None)
    ELSE (IF Truthy(detail.summary) THEN Some(Val(detail.summary)) ELSE None)

\* ---------------------------------------------------------- provider metadata
\* providerMetadata of an event.  kind "acc" is the accumulatedReasoningDetails
\* array itself (the event holds a reference to it); details is its content
\* when the event was enqueued.  kind "delta" is the chunk's own list.
NoMetadata == [kind |-> "none", details |-> <<>>]

AccMetadata(acc) == [kind |-> "acc", details |-> acc]

DeltaMetadata(details) == [kind |-> "delta", details |-> details]

\* ------------------------------------------------------------ stream events
\* generateId(): the n-th identifier generated within one stream
GenId(n) == "gen" \o ToString(n)

Enqueue(s, e) == [s EXCEPT !.events = Append(@, e)]

\* ------------------------------------------------- tool-call accumulator list
\* toolCalls is a JavaScript array used as a map: slot i holds Some(record) or
\* None.  Slot -1 is the property "-1" that toolCalls[-1] = ... creates; it is
\* not an element of the array and does not count towards its length.
IndexDom == (-1)..MaxIndex

EmptyToolCalls == [i \in IndexDom |-> None]

\* toolCalls.length
ArrayLength(tc) ==
    IF \E i \in 0..MaxIndex : IsSome(tc[i])
    THEN 1 + CHOOSE i \in 0..MaxIndex :
                 /\ IsSome(tc[i])
                 /\ \A j \in 0..MaxIndex : IsSome(tc[j]) => j <= i
    ELSE 0

\* a plausible slip: the attachment flag is not consulted
ToolCallEvent_AlwaysAttached(s, toolCall, input) ==
    [ type |-> "tool-call", toolCallId |-> toolCall.id,
      toolName |-> toolCall.name, input |-> input,
      providerMetadata |-> AccMetadata(s.accumulatedReasoningDetails) ]

\* the 'tool-call' event of an accumulator; the first one emitted in a stream
\* carries the accumulated reasoning details
ToolCallEvent(s, toolCall, input) ==
    [ type |-> "tool-call", toolCallId |-> toolCall.id,
      toolName |-> toolCall.name, input |-> input,
      providerMetadata |->
          IF ~s.reasoningDetailsAttachedToToolCall
          THEN AccMetadata(s.accumulatedReasoningDetails)
          ELSE NoMetadata ]

\* enqueue the tool-call event, then set the attachment flag and toolCall.sent
SendToolCall(s, index, input) ==
    LET toolCall == Val(s.toolCalls[index])
        s1 == Enqueue(s, ToolCallEvent(s, toolCall, input))
    IN  [ s1 EXCEPT
            !.reasoningDetailsAttachedToToolCall = TRUE,
            !.toolCalls[index] = Some([toolCall EXCEPT !.sent = TRUE]) ]

\* a plausible slip: a first delta without type, id or name is accepted
StartToolCall_Lenient(s, index, d) ==
    [s EXCEPT !.toolCalls[index] =
        Some([ id |-> Coalesce(d.id, "missing"),
               name |-> Coalesce(d.name, "missing"),
               arguments |-> Coalesce(d.arguments, <<>>),
               inputStarted |-> FALSE, sent |-> FALSE ])]

\* a plausible slip: a complete first delta is sent without its input events
StartToolCall_NoInputEvents(s, index, d) ==
    IF d.type # Some("function") \/ ~IsSome(d.id) \/ ~IsSome(d.name)
    THEN [s EXCEPT !.pc = "errored"]
    ELSE LET toolCall ==
                 [ id |-> Val(d.id), name |-> Val(d.name),
                   arguments |-> Coalesce(d.arguments, <<>>),
                   inputStarted |-> FALSE, sent |-> FALSE ]
             s1 == [s EXCEPT !.toolCalls[index] = Some(toolCall)]
         IN  IF IsParsableJson(toolCall.arguments)
             THEN SendToolCall(s1, index, toolCall.arguments)
             ELSE s1

\* "Tool call start": no accumulator at index yet
StartToolCall(s, index, d) ==
    IF d.type # Some("function") \/ ~IsSome(d.id) \/ ~IsSome(d.name)
    THEN [s EXCEPT !.pc = "errored"]
    ELSE LET toolCall ==
                 [ id |-> Val(d.id), name |-> Val(d.name),
                   arguments |-> Coalesce(d.arguments, <<>>),
                   inputStarted |-> FALSE, sent |-> FALSE ]
             s1 == [s EXCEPT !.toolCalls[index] = Some(toolCall)]
         IN  IF IsParsableJson(toolCall.arguments)
             THEN LET s2 == [s1 EXCEPT !.toolCalls[index] =
                                 Some([toolCall EXCEPT !.inputStarted = TRUE])]
                      s3 == Enqueue(s2, [ type |-> "tool-input-start",
                                          id |-> toolCall.id,
                                          toolName |-> toolCall.name ])
                      s4 == Enqueue(s3, [ type |-> "tool-input-delta",
                                          id |-> toolCall.id,
                                          delta |-> toolCall.arguments ])
                      s5 == Enqueue(s4, [ type |-> "tool-input-end",
                                          id |-> toolCall.id ])
                  IN  SendToolCall(s5, index, toolCall.arguments)
             ELSE s1

\* a plausible slip: the fragment replaces the buffer instead of extending it
MergedArguments_Overwrite(toolCall, d) ==
    IF IsSome(d.arguments) THEN Val(d.arguments) ELSE toolCall.arguments

\* toolCall.function.arguments += toolCallDelta.function?.arguments ?? ''
MergedArguments(toolCall, d) ==
    IF IsSome(d.arguments)
    THEN toolCall.arguments \o Val(d.arguments)
    ELSE toolCall.arguments

\* "existing tool call, merge"
MergeToolCall(s, index, d) ==
    LET toolCall == Val(s.toolCalls[index])
        s1 == IF ~toolCall.inputStarted
              THEN Enqueue([s EXCEPT !.toolCalls[index] =
                                Some([toolCall EXCEPT !.inputStarted = TRUE])],
                           [ type |-> "tool-input-start", id |-> toolCall.id,
                             toolName |-> toolCall.name ])
              ELSE s
        arguments == MergedArguments(toolCall, d)
        s2 == [s1 EXCEPT !.toolCalls[index] =
                   Some([Val(s1.toolCalls[index]) EXCEPT !.arguments = arguments])]
        s3 == Enqueue(s2, [ type |-> "tool-input-delta", id |-> toolCall.id,
                            delta |-> Coalesce(d.arguments, <<>>) ])
    IN  IF IsParsableJson(arguments)
        THEN SendToolCall(s3, index, arguments)
        ELSE s3

\* body of the loop over delta.tool_calls
ToolCallDeltaStep(s, d) ==
    LET index == Coalesce(d.index, ArrayLength(s.toolCalls) - 1)
    IN  IF ~IsSome(s.toolCalls[index])
        THEN StartToolCall(s, index, d)
        ELSE MergeToolCall(s, index, d)

\* for (const toolCallDelta of delta.tool_calls); a throw ends the handler
RECURSIVE ToolCallsStep(_, _)
ToolCallsStep(s, deltas) ==
    IF deltas = <<>> \/ s.pc = "errored" THEN s
    ELSE ToolCallsStep(ToolCallDeltaStep(s, Head(deltas)), Tail(deltas))

\* ------------------------------------------------------- reasoning and text
\* x || generateId() for an optional id; returns <<id, new genCount>>
IdOrGenerate(opt, genCount) ==
    IF Truthy(opt) THEN <<Val(opt), genCount>>
    ELSE <<GenId(genCount + 1), genCount + 1>>

emitReasoningChunk(s, chunkText, providerMetadata) ==
    LET s1 == IF ~s.reasoningStarted
              THEN LET r == IdOrGenerate(s.osmResponseId, s.genCount)
                   IN  Enqueue([s EXCEPT !.reasoningId = Some(r[1]),
                                         !.genCount = r[2],
                                         !.reasoningStarted = TRUE],
                               [ type |-> "reasoning-start", id |-> r[1],
                                 providerMetadata |-> providerMetadata ])
              ELSE s
        r2 == IdOrGenerate(s1.reasoningId, s1.genCount)
    IN  Enqueue([s1 EXCEPT !.genCount = r2[2]],
                [ type |-> "reasoning-delta", id |-> r2[1],
                  delta |-> chunkText,
                  providerMetadata |-> providerMetadata ])

\* the switch loop that emits one reasoning chunk per non-empty detail
RECURSIVE EmitReasoningDetails(_, _, _)
EmitReasoningDetails(s, details, providerMetadata) ==
    IF details = <<>> THEN s
    ELSE LET t == ReasoningChunkText(Head(details))
             s1 == IF IsSome(t)
                   THEN emitReasoningChunk(s, Val(t), providerMetadata)
                   ELSE s
         IN  EmitReasoningDetails(s1, Tail(details), providerMetadata)

\* if (delta.reasoning_details && length > 0) ... else if (delta.reasoning)
ReasoningStep(s, c) ==
    IF Len(c.reasoning_details) > 0
    THEN LET s1 == [s EXCEPT !.accumulatedReasoningDetails =
                        MergeReasoningDetails(@, c.reasoning_details)]
         IN  EmitReasoningDetails(s1, c.reasoning_details,
                                  DeltaMetadata(c.reasoning_details))
    ELSE IF Truthy(c.reasoning)
    THEN emitReasoningChunk(s, Val(c.reasoning), NoMetadata)
    ELSE s

\* the behaviour before the accumulated details were attached to reasoning-end
ReasoningEndMetadata_Absent(s) == NoMetadata

\* providerMetadata of a reasoning-end event
ReasoningEndMetadata(s) ==
    IF Len(s.accumulatedReasoningDetails) > 0
    THEN AccMetadata(s.accumulatedReasoningDetails)
    ELSE NoMetadata

\* a plausible slip: the open reasoning block is not closed before text
EndReasoningBeforeText_Omitted(s) == s

\* "end the reasoning first to maintain proper order"
EndReasoningBeforeText(s) ==
    IF s.reasoningStarted /\ ~s.textStarted
    THEN LET r == IdOrGenerate(s.reasoningId, s.genCount)
         IN  Enqueue([s EXCEPT !.genCount = r[2], !.reasoningStarted = FALSE],
                     [ type |-> "reasoning-end", id |-> r[1],
                       providerMetadata |-> ReasoningEndMetadata(s) ])
    ELSE s

\* a plausible slip: every text delta opens a text block of its own
ContentStep_StartPerDelta(s, c) ==
    IF ~Truthy(c.content) THEN s
    ELSE LET s1 == EndReasoningBeforeText(s)
             r == IdOrGenerate(s1.osmResponseId, s1.genCount)
             s2 == Enqueue([s1 EXCEPT !.textId = Some(r[1]), !.genCount = r[2],
                                      !.textStarted = TRUE],
                           [type |-> "text-start", id |-> r[1]])
         IN  Enqueue(s2, [ type |-> "text-delta", id |-> r[1],
                           delta |-> Val(c.content) ])

\* if (delta.content) { ... }
ContentStep(s, c) ==
    IF ~Truthy(c.content) THEN s
    ELSE LET s1 == EndReasoningBeforeText(s)
             s2 == IF ~s1.textStarted
                   THEN LET r == IdOrGenerate(s1.osmResponseId, s1.genCount)
                        IN  Enqueue([s1 EXCEPT !.textId = Some(r[1]),
                                               !.genCount = r[2],
                                               !.textStarted = TRUE],
                                    [type |-> "text-start", id |-> r[1]])
                   ELSE s1
             r2 == IdOrGenerate(s2.textId, s2.genCount)
         IN  Enqueue([s2 EXCEPT !.genCount = r2[2]],
                     [ type |-> "text-delta", id |-> r2[1],
                       delta |-> Val(c.content) ])

\* ------------------------------------------------- annotations and images
\* an annotation is [type, url, hasFile]: a url_citation with its url, or a
\* file annotation whose file object has hash and name (hasFile) or not
\* (for a file annotation the url field names the file)
\* a plausible slip: a file annotation is accumulated without the shape check
RECURSIVE AnnotationsStep_FilesUnchecked(_, _)
AnnotationsStep_FilesUnchecked(s, annotations) ==
    IF annotations = <<>> THEN s
    ELSE LET a == Head(annotations)
             s1 == IF a.type = "url_citation"
                   THEN Enqueue(s, [ type |-> "source", sourceType |-> "url",
                                     id |-> a.url, url |-> a.url ])
                   ELSE IF a.type = "file"
                   THEN [s EXCEPT !.accumulatedFileAnnotations = Append(@, a)]
                   ELSE s
         IN  AnnotationsStep_FilesUnchecked(s1, Tail(annotations))

RECURSIVE AnnotationsStep(_, _)
AnnotationsStep(s, annotations) ==
    IF annotations = <<>> THEN s
    ELSE LET a == Head(annotations)
             s1 == IF a.type = "url_citation"
                   THEN Enqueue(s, [ type |-> "source", sourceType |-> "url",
                                     id |-> a.url, url |-> a.url ])
                   ELSE IF a.type = "file" /\ a.hasFile
                   THEN [s EXCEPT !.accumulatedFileAnnotations = Append(@, a)]
                   ELSE s
         IN  AnnotationsStep(s1, Tail(annotations))

RECURSIVE ImagesStep(_, _)
ImagesStep(s, images) ==
    IF images = <<>> THEN s
    ELSE ImagesStep(Enqueue(s, [type |-> "file", data |-> Head(images)]),
                    Tail(images))

\* ------------------------------------------------------ per-chunk handler
\* a plausible slip: only chunks that passed validation are forwarded raw
RawStep_ValidOnly(s, c) ==
    IF s.includeRawChunks /\ c.success
    THEN Enqueue(s, [type |-> "raw", rawValue |-> c.rawValue])
    ELSE s

\* if (options.includeRawChunks) enqueue raw
RawStep(s, c) ==
    IF s.includeRawChunks
    THEN Enqueue(s, [type |-> "raw", rawValue |-> c.rawValue])
    ELSE s

\* a plausible slip: an invalid chunk ends the stream
ErrorStep_Fatal(s, c) ==
    Enqueue([s EXCEPT !.finishReason = createFinishReason("error", None),
                      !.pc = "errored"],
            [type |-> "error", error |-> c.rawValue])

\* failed chunk validation, or an error payload: one error event
ErrorStep(s, c) ==
    Enqueue([s EXCEPT !.finishReason = createFinishReason("error", None)],
            [type |-> "error", error |-> c.rawValue])

\* provider, id and model of the chunk
MetadataStep(s, c) ==
    LET s1 == IF Truthy(c.provider) THEN [s EXCEPT !.provider = c.provider] ELSE s
        s2 == IF Truthy(c.id)
              THEN Enqueue([s1 EXCEPT !.osmResponseId = c.id],
                           [ type |-> "response-metadata", id |-> c.id,
                             modelId |-> None ])
              ELSE s1
    IN  IF Truthy(c.model)
        THEN Enqueue(s2, [ type |-> "response-metadata", id |-> None,
                           modelId |-> c.model ])
        ELSE s2

\* if (value.usage != null) { ... }
UsageStep(s, c) ==
    IF ~IsSome(c.usage) THEN s
    ELSE LET u == Val(c.usage)
             computed == computeTokenUsage(u)
             o1 == [ s.osmUsage EXCEPT
                       !.promptTokens = Some(Coalesce(u.prompt_tokens, 0)),
                       !.completionTokens = Some(Coalesce(u.completion_tokens, 0)),
                       !.totalTokens = u.total_tokens ]
             o2 == IF u.hasPromptDetails
                   THEN [o1 EXCEPT !.promptTokensDetails =
                             Some([cachedTokens |-> Coalesce(u.cached_tokens, 0)])]
                   ELSE o1
             o3 == IF u.hasCompletionDetails
                   THEN [o2 EXCEPT !.completionTokensDetails =
                             Some([reasoningTokens |-> Coalesce(u.reasoning_tokens, 0)])]
                   ELSE o2
             o4 == IF IsSome(u.cost) THEN [o3 EXCEPT !.cost = u.cost] ELSE o3
             o5 == IF IsSome(u.upstream_inference_cost)
                   THEN [o4 EXCEPT !.costDetails =
                             Some([upstreamInferenceCost |-> Val(u.upstream_inference_cost)])]
                   ELSE o4
         IN  [ s EXCEPT
                 !.usage.inputTokens = ObjectAssign(@, computed.inputTokens),
                 !.usage.outputTokens = ObjectAssign(@, computed.outputTokens),
                 !.rawUsage = Some(u),
                 !.osmUsage = o5 ]

\* a plausible slip: an error reason is kept once it was set
FinishReasonStep_ErrorSticks(s, c) ==
    IF c.hasChoice /\ IsSome(c.finish_reason) /\ s.finishReason.unified # "error"
    THEN [s EXCEPT !.finishReason = mapOsmFinishReason(c.finish_reason)]
    ELSE s

\* if (choice?.finish_reason != null) finishReason = mapOsmFinishReason(...)
FinishReasonStep(s, c) ==
    IF c.hasChoice /\ IsSome(c.finish_reason)
    THEN [s EXCEPT !.finishReason = mapOsmFinishReason(c.finish_reason)]
    ELSE s

\* a plausible slip: the tool calls of a chunk are handled before its text
DeltaStep_ToolCallsFirst(s, c) ==
    LET s1 == ToolCallsStep(s, c.tool_calls)
        s2 == ReasoningStep(s1, c)
        s3 == ContentStep(s2, c)
        s4 == AnnotationsStep(s3, c.annotations)
    IN  IF s1.pc = "errored" THEN s1 ELSE ImagesStep(s4, c.images)

\* the part of transform that handles choice.delta
DeltaStep(s, c) ==
    LET s1 == ReasoningStep(s, c)
        s2 == ContentStep(s1, c)
        s3 == AnnotationsStep(s2, c.annotations)
        s4 == ToolCallsStep(s3, c.tool_calls)
    IN  IF s4.pc = "errored" THEN s4 ELSE ImagesStep(s4, c.images)

\* a plausible slip: the error checks come after the chunk's provider, id,
\* model and usage were taken over
Transform_ErrorCheckLate(s, c) ==
    LET s0 == RawStep(s, c)
        s2 == UsageStep(MetadataStep(s0, c), c)
    IN  IF ~c.success \/ c.isError THEN ErrorStep(s2, c)
        ELSE LET s3 == FinishReasonStep(s2, c)
             IN  IF ~(c.hasChoice /\ c.hasDelta) THEN s3 ELSE DeltaStep(s3, c)

\* transform(chunk, controller)
Transform(s, c) ==
    LET s0 == RawStep(s, c)
    IN  IF ~c.success \/ c.isError THEN ErrorStep(s0, c)
        ELSE LET s3 == FinishReasonStep(UsageStep(MetadataStep(s0, c), c), c)
             IN  IF ~(c.hasChoice /\ c.hasDelta) THEN s3 ELSE DeltaStep(s3, c)

\* ------------------------------------------------------------------- flush
\* the Gemini thoughtSignature fix: 'stop' becomes 'tool-calls'
FlushOverride(s) ==
    IF /\ ArrayLength(s.toolCalls) > 0
       /\ hasEncryptedReasoning(s.accumulatedReasoningDetails)
       /\ s.finishReason.unified = "stop"
    THEN [s EXCEPT !.finishReason =
              createFinishReason("tool-calls", s.finishReason.raw)]
    ELSE s

\* for (const toolCall of toolCalls) from array index i on
RECURSIVE ForwardUnsent(_, _)
ForwardUnsent(s, i) ==
    IF i >= ArrayLength(s.toolCalls) THEN s
    ELSE LET slot == s.toolCalls[i]
             s1 == IF IsSome(slot) /\ ~Val(slot).sent
                   THEN SendToolCall(s, i,
                            IF IsParsableJson(Val(slot).arguments)
                            THEN Val(slot).arguments
                            ELSE EmptyObjectLiteral)
                   ELSE s
         IN  ForwardUnsent(s1, i + 1)

\* a plausible slip: the forced emission does not look at the finish reason
FlushToolCalls_Always(s) == ForwardUnsent(s, 0)

\* "Forward any unsent tool calls if finish reason is 'tool-calls'"
FlushToolCalls(s) ==
    IF s.finishReason.unified = "tool-calls" THEN ForwardUnsent(s, 0) ELSE s

\* a plausible slip: the flush closes the text block only
FlushBlocks_TextOnly(s) ==
    IF s.textStarted
    THEN LET r == IdOrGenerate(s.textId, s.genCount)
         IN  Enqueue([s EXCEPT !.genCount = r[2]],
                     [type |-> "text-end", id |-> r[1]])
    ELSE s

\* reasoning-end and text-end for the blocks still open
FlushBlocks(s) ==
    LET s1 == IF s.reasoningStarted
              THEN LET r == IdOrGenerate(s.reasoningId, s.genCount)
                   IN  Enqueue([s EXCEPT !.genCount = r[2]],
                               [ type |-> "reasoning-end", id |-> r[1],
                                 providerMetadata |-> ReasoningEndMetadata(s) ])
              ELSE s
    IN  IF s1.textStarted
        THEN LET r == IdOrGenerate(s1.textId, s1.genCount)
             IN  Enqueue([s1 EXCEPT !.genCount = r[2]],
                         [type |-> "text-end", id |-> r[1]])
        ELSE s1

\* the terminal finish event
FlushFinish(s) ==
    LET s1 == [s EXCEPT !.usage.raw = s.rawUsage]
        osmMetadata ==
            [ usage |-> s1.osmUsage,
              provider |-> s1.provider,
              reasoning_details |->
                  IF Len(s1.accumulatedReasoningDetails) > 0
                  THEN AccMetadata(s1.accumulatedReasoningDetails)
                  ELSE NoMetadata,
              annotations |-> s1.accumulatedFileAnnotations ]
    IN  Enqueue(s1, [ type |-> "finish", finishReason |-> s1.finishReason,
                      usage |-> s1.usage, providerMetadata |-> osmMetadata ])

\* a plausible slip: the open blocks are closed after the finish event
FlushStream_BlocksAfterFinish(s) ==
    [FlushBlocks(FlushFinish(FlushToolCalls(FlushOverride(s)))) EXCEPT !.pc = "done"]

\* a plausible slip: the override is decided after the unsent tool calls
\* were looked at
FlushStream_OverrideLate(s) ==
    [FlushFinish(FlushBlocks(FlushOverride(FlushToolCalls(s)))) EXCEPT !.pc = "done"]

\* flush(controller)
FlushStream(s) ==
    [FlushFinish(FlushBlocks(FlushToolCalls(FlushOverride(s)))) EXCEPT !.pc = "done"]

\* ------------------------------------------------- completion stream
\* transform(chunk, controller) of the completion model's doStream
CompletionTransform(s, c) ==
    LET s0 == RawStep(s, c)
    IN  IF ~c.success \/ c.isError THEN ErrorStep(s0, c)
        ELSE LET s1 == IF Truthy(c.provider)
                       THEN [s0 EXCEPT !.provider = c.provider] ELSE s0
                 s3 == FinishReasonStep(UsageStep(s1, c), c)
             IN  IF c.hasChoice /\ IsSome(c.text)
                 THEN Enqueue([s3 EXCEPT !.genCount = @ + 1],
                              [ type |-> "text-delta", delta |-> Val(c.text),
                                id |-> GenId(s3.genCount + 1) ])
                 ELSE s3

\* flush(controller) of the completion model's doStream
CompletionFlushStream(s) ==
    LET s1 == [s EXCEPT !.usage.raw = s.rawUsage, !.pc = "done"]
    IN  Enqueue(s1, [ type |-> "finish", finishReason |-> s1.finishReason,
                      usage |-> s1.usage,
                      providerMetadata |->
                          [usage |-> s1.osmUsage, provider |-> s1.provider] ])

\* ------------------------------------------------- non-streaming mapper
ResponseMetadata(details) == [kind |-> "response", details |-> details]

\* reasoningDetails.map(...).filter(p => p !== null)
RECURSIVE ReasoningBlocks(_)
ReasoningBlocks(details) ==
    IF details = <<>> THEN <<>>
    ELSE LET detail == Head(details)
             t == ReasoningChunkText(detail)
             block == IF IsSome(t)
                      THEN << [ type |-> "reasoning", text |-> Val(t),
                                providerMetadata |-> ResponseMetadata(<<detail>>) ] >>
                      ELSE <<>>
         IN  block \o ReasoningBlocks(Tail(details))

\* the reasoning blocks of a message: reasoning_details, else legacy reasoning
GenerateReasoning(message, reasoningDetails) ==
    IF Len(reasoningDetails) > 0 THEN ReasoningBlocks(reasoningDetails)
    ELSE IF Truthy(message.reasoning)
    THEN << [ type |-> "reasoning", text |-> Val(message.reasoning),
              providerMetadata |-> NoMetadata ] >>
    ELSE <<>>

\* the loop over choice.message.tool_calls; attached is
\* reasoningDetailsAttachedToToolCall, n the generateId() calls so far
RECURSIVE GenerateToolCalls(_, _, _, _)
GenerateToolCalls(calls, reasoningDetails, attached, n) ==
    IF calls = <<>> THEN <<>>
    ELSE LET toolCall == Head(calls)
             r == IF IsSome(toolCall.id) THEN <<Val(toolCall.id), n>>
                  ELSE <<GenId(n + 1), n + 1>>
             block == [ type |-> "tool-call", toolCallId |-> r[1],
                        toolName |-> toolCall.name,
                        input |-> Coalesce(toolCall.arguments, EmptyObjectLiteral),
                        providerMetadata |->
                            IF ~attached THEN ResponseMetadata(reasoningDetails)
                            ELSE NoMetadata ]
         IN  <<block>> \o GenerateToolCalls(Tail(calls), reasoningDetails, TRUE, r[2])

RECURSIVE GenerateSources(_)
GenerateSources(annotations) ==
    IF annotations = <<>> THEN <<>>
    ELSE LET a == Head(annotations)
         IN  (IF a.type = "url_citation"
              THEN << [ type |-> "source", sourceType |-> "url", id |-> a.url,
                        url |-> a.url ] >>
              ELSE <<>>) \o GenerateSources(Tail(annotations))

\* a plausible slip: the tool-call condition is left out of the override
GenerateFinishReason_NoToolCallCheck(choice, reasoningDetails) ==
    IF hasEncryptedReasoning(reasoningDetails) /\ choice.finish_reason = Some("stop")
    THEN createFinishReason("tool-calls", choice.finish_reason)
    ELSE mapOsmFinishReason(choice.finish_reason)

\* effectiveFinishReason
GenerateFinishReason(choice, reasoningDetails) ==
    LET hasToolCalls == Len(Coalesce(choice.message.tool_calls, <<>>)) > 0
        shouldOverrideFinishReason ==
            /\ hasToolCalls
            /\ hasEncryptedReasoning(reasoningDetails)
            /\ choice.finish_reason = Some("stop")
    IN  IF shouldOverrideFinishReason
        THEN createFinishReason("tool-calls", choice.finish_reason)
        ELSE mapOsmFinishReason(choice.finish_reason)

\* providerMetadata.osm.usage of the non-streaming result
GenerateUsageAccounting(usageInfo, responseUsage) ==
    LET promptTokens == Coalesce(usageInfo.inputTokens.total, 0)
        completionTokens == Coalesce(usageInfo.outputTokens.total, 0)
        u == Val(responseUsage)
    IN  [ promptTokens |-> Some(promptTokens),
          completionTokens |-> Some(completionTokens),
          totalTokens |-> Some(promptTokens + completionTokens),
          cost |-> IF IsSome(responseUsage) THEN u.cost ELSE None,
          promptTokensDetails |->
              IF IsSome(responseUsage) /\ u.hasPromptDetails /\ IsSome(u.cached_tokens)
              THEN Some([cachedTokens |-> Val(u.cached_tokens)]) ELSE None,
          completionTokensDetails |->
              IF IsSome(responseUsage) /\ u.hasCompletionDetails
                 /\ IsSome(u.reasoning_tokens)
              THEN Some([reasoningTokens |-> Val(u.reasoning_tokens)]) ELSE None,
          costDetails |->
              IF IsSome(responseUsage) /\ IsSome(u.upstream_inference_cost)
              THEN Some([upstreamInferenceCost |-> Val(u.upstream_inference_cost)])
              ELSE None ]

Failure(outcome, message) ==
    [ outcome |-> outcome, message |-> message, content |-> <<>>,
      finishReason |-> createFinishReason("other", None), usage |-> emptyUsage,
      providerMetadata |-> NoMetadata ]

\* a plausible slip: the choices are looked at before the error field
ResponseFailure_ChoiceFirst(responseValue) ==
    IF responseValue.choices = <<>>
    THEN Some(Failure("NoContentGeneratedError", "No choice in response"))
    ELSE IF responseValue.hasError
    THEN Some(Failure("APICallError", responseValue.errorMessage))
    ELSE None

\* the two throws at the head of doGenerate, if one is taken
ResponseFailure(responseValue) ==
    IF responseValue.hasError
    THEN Some(Failure("APICallError", responseValue.errorMessage))
    ELSE IF responseValue.choices = <<>>
    THEN Some(Failure("NoContentGeneratedError", "No choice in response"))
    ELSE None

\* the text block, if content is non-empty
GenerateText(message) ==
    IF Truthy(message.content)
    THEN <<[type |-> "text", text |-> Val(message.content)]>>
    ELSE <<>>

\* one file block per inline image
GenerateImages(message) ==
    [i \in 1..Len(message.images) |-> [type |-> "file", data |-> message.images[i]]]

\* a plausible slip: the text block is pushed before the reasoning blocks
GenerateContent_TextFirst(message, reasoningDetails) ==
    GenerateText(message)
    \o GenerateReasoning(message, reasoningDetails)
    \o GenerateToolCalls(Coalesce(message.tool_calls, <<>>), reasoningDetails,
                         FALSE, 0)
    \o GenerateImages(message)
    \o GenerateSources(Coalesce(message.annotations, <<>>))

\* the content array, in the order of the pushes
GenerateContent(message, reasoningDetails) ==
    GenerateReasoning(message, reasoningDetails)
    \o GenerateText(message)
    \o GenerateToolCalls(Coalesce(message.tool_calls, <<>>), reasoningDetails,
                         FALSE, 0)
    \o GenerateImages(message)
    \o GenerateSources(Coalesce(message.annotations, <<>>))

\* doGenerate, from the parsed response value on
doGenerate(responseValue) ==
    IF IsSome(ResponseFailure(responseValue))
    THEN Val(ResponseFailure(responseValue))
    ELSE LET choice == Head(responseValue.choices)
             message == choice.message
             usageInfo == IF IsSome(responseValue.usage)
                          THEN computeTokenUsage(Val(responseValue.usage))
                          ELSE emptyUsage
             reasoningDetails == Coalesce(message.reasoning_details, <<>>)
             annotations == Coalesce(message.annotations, <<>>)
             fileAnnotations == SelectSeq(annotations, LAMBDA a : a.type = "file")
             content == GenerateContent(message, reasoningDetails)
         IN  [ outcome |-> "result", message |-> "",
               content |-> content,
               finishReason |-> GenerateFinishReason(choice, reasoningDetails),
               usage |-> usageInfo,
               providerMetadata |->
                   [ provider |-> Coalesce(responseValue.provider, ""),
                     reasoning_details |-> reasoningDetails,
                     annotations |-> fileAnnotations,
                     usage |-> GenerateUsageAccounting(usageInfo, responseValue.usage) ] ]

\* ------------------------------------------------------------- upstream chunks
\* one parsed server-sent event; rawValue names the untouched wire value
Chunk(rawValue) ==
    [ rawValue |-> rawValue, success |-> TRUE, isError |-> FALSE,
      provider |-> None, id |-> None, model |-> None, usage |-> None,
      hasChoice |-> TRUE, finish_reason |-> None, hasDelta |-> TRUE,
      reasoning_details |-> <<>>, reasoning |-> None, content |-> None,
      annotations |-> <<>>, tool_calls |-> <<>>, images |-> <<>> ]

\* a tool-call delta; the vendor sends id, type and name with the first one
ToolCallDelta(index, id, type, name, arguments) ==
    [ index |-> index, id |-> id, type |-> type, name |-> name,
      arguments |-> arguments ]

\* the id the vendor gives the tool call at an index ("callN": no index sent)
CallId(index) == IF IsSome(index) THEN "call" \o ToString(Val(index)) ELSE "callN"

FirstDelta(index, arguments) ==
    ToolCallDelta(index, Some(CallId(index)), Some("function"), Some("tool"),
                  arguments)

NextDelta(index, arguments) == ToolCallDelta(index, None, None, None, arguments)

FullUsage ==
    UsageObject(Some(10), Some(20), TRUE, Some(4), Some(2), TRUE, Some(8),
                Some(1), Some(30), Some(1))

PartialUsage ==
    UsageObject(Some(3), None, FALSE, None, None, FALSE, None, None, None, None)

\* prompt_tokens_details: { cache_write_tokens: 1 }, no cached_tokens
CacheWriteOnlyUsage ==
    UsageObject(Some(3), Some(1), TRUE, None, Some(1), FALSE, None, None, Some(4), None)

InvalidChunks ==
    { [Chunk("schema-fail") EXCEPT !.success = FALSE],
      [Chunk("vendor-error") EXCEPT !.isError = TRUE] }

MetadataChunks ==
    { [Chunk("meta") EXCEPT !.id = Some("resp1"), !.model = Some("model1"),
                            !.provider = Some("prov1"), !.usage = Some(FullUsage)],
      [Chunk("usage") EXCEPT !.usage = Some(PartialUsage), !.hasChoice = FALSE] }

FinishChunks ==
    { [Chunk("finish-stop") EXCEPT !.finish_reason = Some("stop")],
      [Chunk("finish-tools") EXCEPT !.finish_reason = Some("tool_calls")] }

ReasoningChunks ==
    { [Chunk("legacy") EXCEPT !.reasoning = Some("r"), !.content = Some("")],
      [Chunk("text-a") EXCEPT !.reasoning_details =
           <<TextDetail(Some("a"), None, None)>>],
      [Chunk("text-b") EXCEPT !.reasoning_details =
           <<TextDetail(Some("b"), Some("s"), Some("f"))>>],
      [Chunk("encrypted") EXCEPT !.reasoning_details =
           <<EncryptedDetail(Some("e"))>>],
      [Chunk("encrypted-empty") EXCEPT !.reasoning_details =
           <<EncryptedDetail(Some(""))>>] }

ContentChunks ==
    { [Chunk("content") EXCEPT !.content = Some("t")],
      [Chunk("legacy+content") EXCEPT !.reasoning = Some("r"),
                                      !.content = Some("t")],
      [Chunk("extras") EXCEPT
           !.annotations = << [type |-> "url_citation", url |-> "u", hasFile |-> FALSE],
                              [type |-> "file", url |-> "", hasFile |-> TRUE],
                              [type |-> "file", url |-> "", hasFile |-> FALSE] >>,
           !.images = <<"img">>] }

ToolCallChunks ==
    { [Chunk("first-open" \o ToString(i)) EXCEPT
           !.tool_calls = <<FirstDelta(Some(i), Some(<<"{">>))>>]
        : i \in 0..MaxIndex }
    \cup
    { [Chunk("first-full") EXCEPT !.tool_calls =
           <<FirstDelta(Some(0), Some(<<"{", "}">>))>>],
      [Chunk("first-open-noindex") EXCEPT !.tool_calls =
           <<FirstDelta(None, Some(<<"{">>))>>],
      [Chunk("next-close") EXCEPT !.tool_calls = <<NextDelta(Some(0), Some(<<"}">>))>>],
      [Chunk("next-none") EXCEPT !.tool_calls = <<NextDelta(Some(0), None)>>],
      [Chunk("next-close-noindex") EXCEPT !.tool_calls =
           <<NextDelta(None, Some(<<"}">>))>>],
      [Chunk("parallel") EXCEPT !.tool_calls =
           << FirstDelta(Some(0), Some(<<"{", "}">>)),
              FirstDelta(Some(MaxIndex), Some(<<"{", "}">>)) >>] }

ChunkSet ==
    InvalidChunks \cup MetadataChunks \cup FinishChunks \cup ReasoningChunks
        \cup ContentChunks \cup ToolCallChunks

\* first deltas that break the vendor protocol: no type, no id, no name
MalformedToolCallChunks ==
    { [Chunk("first-notype") EXCEPT !.tool_calls =
           <<ToolCallDelta(Some(0), Some("call0"), None, Some("tool"), Some(<<"{", "}">>))>>],
      [Chunk("first-noid") EXCEPT !.tool_calls =
           <<ToolCallDelta(Some(MaxIndex), None, Some("function"), Some("tool"),
                           Some(<<"{", "}">>))>>],
      [Chunk("first-noname") EXCEPT !.tool_calls =
           <<ToolCallDelta(None, Some("callN"), Some("function"), None, Some(<<"{", "}">>))>>] }

\* chunks whose reasoning details exercise the merge: two signatures, a
\* summary, and several details in one chunk
ReasoningDetailChunks ==
    ReasoningChunks \cup
    { [Chunk("text-c") EXCEPT !.reasoning_details =
           <<TextDetail(Some("c"), Some("s2"), Some("f2"))>>],
      [Chunk("summary") EXCEPT !.reasoning_details = <<SummaryDetail(Some("m"))>>],
      [Chunk("mixed") EXCEPT !.reasoning_details =
           << TextDetail(Some("a"), None, None), TextDetail(Some("b"), Some("s"), None),
              EncryptedDetail(Some("e")), TextDetail(Some("c"), None, Some("f2")) >>],
      [Chunk("content") EXCEPT !.content = Some("t")] }

\* one parsed server-sent event of the completion endpoint
CompletionChunk(rawValue) ==
    [ rawValue |-> rawValue, success |-> TRUE, isError |-> FALSE,
      provider |-> None, usage |-> None, hasChoice |-> TRUE,
      finish_reason |-> None, text |-> None ]

CompletionChunkSet ==
    { [CompletionChunk("schema-fail") EXCEPT !.success = FALSE],
      [CompletionChunk("vendor-error") EXCEPT !.isError = TRUE],
      [CompletionChunk("usage") EXCEPT !.usage = Some(PartialUsage),
                                       !.provider = Some("prov1"),
                                       !.hasChoice = FALSE],
      [CompletionChunk("text") EXCEPT !.text = Some("t")],
      [CompletionChunk("finish-stop") EXCEPT !.finish_reason = Some("stop"),
                                             !.text = Some("")] }

\* usage objects for a direct computeTokenUsage call: counts absent or within
\* 0..MaxTokens, the detail objects absent or present
TokenCounts == {None} \cup {Some(n) : n \in 0..MaxTokens}

UsageDataSet ==
    { u \in { UsageObject(pt, ct, hasPd, cached, cacheWrite, hasCd, reasoningTok,
                          None, None, None) :
                 pt \in TokenCounts, ct \in TokenCounts, hasPd \in BOOLEAN,
                 cached \in TokenCounts, cacheWrite \in {None, Some(0), Some(1)},
                 hasCd \in BOOLEAN, reasoningTok \in {None, Some(1)} } :
        /\ u.hasPromptDetails
              \/ (u.cached_tokens = None /\ u.cache_write_tokens = None)
        /\ u.hasCompletionDetails \/ u.reasoning_tokens = None }

\* ------------------------------------------------------ complete responses
Message(reasoningDetails, reasoning, content, toolCallList) ==
    [ reasoning_details |-> reasoningDetails, reasoning |-> reasoning,
      content |-> content, tool_calls |-> toolCallList, images |-> <<>>,
      annotations |-> None ]

Response(finishReasonIn, message) ==
    [ hasError |-> FALSE, errorMessage |-> "",
      choices |-> <<[finish_reason |-> finishReasonIn, message |-> message]>>,
      usage |-> None, provider |-> None ]

NoResponse == [Response(None, Message(None, None, None, None)) EXCEPT !.choices = <<>>]

ToolCall(id, arguments) == [id |-> id, name |-> "tool", arguments |-> arguments]

VendorFinishReasons ==
    {None, Some("stop"), Some("length"), Some("content_filter"),
     Some("tool_calls"), Some("eos")}

ToolCallLists ==
    { None, Some(<<>>), Some(<<ToolCall(Some("call0"), Some(<<"{", "}">>))>>),
      Some(<< ToolCall(Some("call0"), Some(<<"{", "}">>)),
              ToolCall(None, None) >>) }

ReasoningDetailLists ==
    { None, Some(<<>>), Some(<<EncryptedDetail(Some("e"))>>),
      Some(<<EncryptedDetail(Some(""))>>),
      Some(<<TextDetail(Some("a"), Some("s"), None), EncryptedDetail(Some("e"))>>),
      Some(<<TextDetail(Some("a"), None, None), SummaryDetail(Some("m"))>>) }

ResponseSet ==
    { Response(fr, Message(rd, rs, ct, tc)) :
        fr \in VendorFinishReasons, rd \in ReasoningDetailLists,
        rs \in {None, Some("r")}, ct \in {None, Some("t")}, tc \in ToolCallLists }
    \cup
    { [Response(Some("stop"), Message(None, None, Some("t"), None))
          EXCEPT !.hasError = TRUE, !.errorMessage = "vendor error"],
      NoResponse,
      [NoResponse EXCEPT !.hasError = TRUE, !.errorMessage = "vendor error"],
      [Response(Some("stop"), Message(None, None, Some("t"), None))
          EXCEPT !.usage = Some(CacheWriteOnlyUsage)],
      [Response(Some("stop"), Message(None, None, Some("t"), None))
          EXCEPT !.usage = Some(FullUsage), !.provider = Some("prov1")],
      [Response(Some("stop"),
                [Message(None, None, Some("t"), None) EXCEPT
                    !.images = <<"img">>,
                    !.annotations = Some(<<
                        [type |-> "url_citation", url |-> "u", hasFile |-> FALSE],
                        [type |-> "file", url |-> "", hasFile |-> TRUE] >>)])
          EXCEPT !.usage = Some(PartialUsage)] }
    \cup
    \* responses with blocks of several groups
    { Response(Some("tool_calls"),
               [Message(rd, Some("r"), ct, tc) EXCEPT
                   !.images = <<"img1", "img2">>,
                   !.annotations = Some(<<
                       [type |-> "file", url |-> "", hasFile |-> TRUE],
                       [type |-> "url_citation", url |-> "u1", hasFile |-> FALSE],
                       [type |-> "url_citation", url |-> "u2", hasFile |-> FALSE] >>)]) :
        rd \in {None, Some(<<TextDetail(Some("a"), Some("s"), None),
                             EncryptedDetail(Some("")),
                             EncryptedDetail(Some("e"))>>)},
        ct \in {None, Some("t")},
        tc \in {None, Some(<< ToolCall(Some("call0"), Some(<<"{", "}">>)),
                              ToolCall(Some("call1"), None) >>)} }

\* ------------------------------------------------------------ stream state
VARIABLES
    pc,                 \* "streaming", "done" (flushed), "errored" (thrown),
                        \* or "idle" (no doStream call was made)
    includeRawChunks,   \* options.includeRawChunks
    delivered,          \* the chunks the upstream has delivered so far
    events,             \* what the controller has enqueued, in order
    genCount,           \* generateId() calls so far
    toolCalls, finishReason, usage, osmUsage, rawUsage,
    accumulatedReasoningDetails, reasoningDetailsAttachedToToolCall,
    accumulatedFileAnnotations, textStarted, reasoningStarted, textId,
    reasoningId, osmResponseId, provider,
    response,           \* the parsed response value a doGenerate call received
    generated,          \* what that doGenerate call returned or threw, if it ran
    usageData,          \* the argument of a direct computeTokenUsage call
    tokenUsage,         \* what that computeTokenUsage call returned, if it ran
    heap,               \* the objects the usage normalizer's callers hold, by address
    returned,           \* the normalizer calls made so far and what they returned
    peer                \* the closure state and input of a second doStream call
                        \* on the same model instance, if one was made

vars ==
    << pc, includeRawChunks, delivered, events, genCount, toolCalls,
       finishReason, usage, osmUsage, rawUsage, accumulatedReasoningDetails,
       reasoningDetailsAttachedToToolCall, accumulatedFileAnnotations,
       textStarted, reasoningStarted, textId, reasoningId, osmResponseId,
       provider, response, generated, usageData, tokenUsage, heap, returned, peer >>

\* the closure state of one doStream call, as one record
StreamState ==
    [ pc |-> pc, includeRawChunks |-> includeRawChunks, events |-> events,
      genCount |-> genCount, toolCalls |-> toolCalls,
      finishReason |-> finishReason, usage |-> usage, osmUsage |-> osmUsage,
      rawUsage |-> rawUsage,
      accumulatedReasoningDetails |-> accumulatedReasoningDetails,
      reasoningDetailsAttachedToToolCall |-> reasoningDetailsAttachedToToolCall,
      accumulatedFileAnnotations |-> accumulatedFileAnnotations,
      textStarted |-> textStarted, reasoningStarted |-> reasoningStarted,
      textId |-> textId, reasoningId |-> reasoningId,
      osmResponseId |-> osmResponseId, provider |-> provider ]

\* the closure state after a handler returned record s
Becomes(s) ==
    /\ pc' = s.pc
    /\ events' = s.events
    /\ genCount' = s.genCount
    /\ toolCalls' = s.toolCalls
    /\ finishReason' = s.finishReason
    /\ usage' = s.usage
    /\ osmUsage' = s.osmUsage
    /\ rawUsage' = s.rawUsage
    /\ accumulatedReasoningDetails' = s.accumulatedReasoningDetails
    /\ reasoningDetailsAttachedToToolCall' = s.reasoningDetailsAttachedToToolCall
    /\ accumulatedFileAnnotations' = s.accumulatedFileAnnotations
    /\ textStarted' = s.textStarted
    /\ reasoningStarted' = s.reasoningStarted
    /\ textId' = s.textId
    /\ reasoningId' = s.reasoningId
    /\ osmResponseId' = s.osmResponseId
    /\ provider' = s.provider

InitialUsage ==
    [ inputTokens |-> [ total |-> None, noCache |-> None, cacheRead |-> None,
                        cacheWrite |-> None ],
      outputTokens |-> [ total |-> None, text |-> None, reasoning |-> None ],
      raw |-> None ]

InitialOsmUsage ==
    [ promptTokens |-> None, promptTokensDetails |-> None,
      completionTokens |-> None, completionTokensDetails |-> None,
      cost |-> None, totalTokens |-> None, costDetails |-> None ]

\* a fresh doStream closure
InitStream ==
    /\ includeRawChunks \in BOOLEAN
    /\ delivered = <<>>
    /\ events = <<>>
    /\ genCount = 0
    /\ toolCalls = EmptyToolCalls
    /\ finishReason = createFinishReason("other", None)
    /\ usage = InitialUsage
    /\ osmUsage = InitialOsmUsage
    /\ rawUsage = None
    /\ accumulatedReasoningDetails = <<>>
    /\ reasoningDetailsAttachedToToolCall = FALSE
    /\ accumulatedFileAnnotations = <<>>
    /\ textStarted = FALSE
    /\ reasoningStarted = FALSE
    /\ textId = None
    /\ reasoningId = None
    /\ osmResponseId = None
    /\ provider = None

\* a chat stream; no doGenerate call is made
Init ==
    /\ InitStream
    /\ pc = "streaming"
    /\ response = NoResponse
    /\ generated = None
    /\ usageData = None
    /\ tokenUsage = None
    /\ heap = <<>>
    /\ returned = <<>>
    /\ peer = None

\* the upstream delivers one chunk of a set and transform handles it
ProcessChunkOf(chunks) ==
    /\ pc = "streaming"
    /\ Len(delivered) < MaxChunks
    /\ \E c \in chunks :
           /\ Becomes(Transform(StreamState, c))
           /\ delivered' = Append(delivered, c)
    /\ UNCHANGED <<includeRawChunks, response, generated, usageData, tokenUsage,
                    heap, returned, peer >>

ProcessChunk == ProcessChunkOf(ChunkSet)

\* the upstream ends (naturally, or because the request was aborted)
Flush ==
    /\ pc = "streaming"
    /\ Becomes(FlushStream(StreamState))
    /\ UNCHANGED <<includeRawChunks, delivered, response, generated,
                    usageData, tokenUsage,
                    heap, returned, peer >>

Next == ProcessChunk \/ Flush

Spec == Init /\ [][Next]_vars

\* ----------------------------------------------------- non-streaming call
\* one doGenerate call on some complete response; no stream is consumed
InitGenerate ==
    /\ InitStream
    /\ pc = "idle"
    /\ response \in ResponseSet
    /\ generated = None
    /\ usageData = None
    /\ tokenUsage = None
    /\ heap = <<>>
    /\ returned = <<>>
    /\ peer = None

\* postJsonToApi returned the response value and doGenerate maps it
DoGenerate ==
    /\ pc = "idle"
    /\ generated = None
    /\ generated' = Some(doGenerate(response))
    /\ UNCHANGED << pc, includeRawChunks, delivered, events, genCount,
                    toolCalls, finishReason, usage, osmUsage, rawUsage,
                    accumulatedReasoningDetails,
                    reasoningDetailsAttachedToToolCall,
                    accumulatedFileAnnotations, textStarted, reasoningStarted,
                    textId, reasoningId, osmResponseId, provider, response,
                    usageData, tokenUsage,
                    heap, returned, peer >>

NextGenerate == DoGenerate

SpecGenerate == InitGenerate /\ [][NextGenerate]_vars

\* ------------------------------------------------ either kind of call
InitAll == Init \/ InitGenerate

NextAll == ProcessChunk \/ Flush \/ DoGenerate

SpecAll == InitAll /\ [][NextAll]_vars

\* ------------------------------- chat stream with protocol violations
\* the upstream delivers a first tool-call delta that breaks the protocol
ProcessMalformedToolCall == ProcessChunkOf(MalformedToolCallChunks)

NextProtocol == ProcessChunk \/ ProcessMalformedToolCall \/ Flush

SpecProtocol == Init /\ [][NextProtocol]_vars

\* ------------------------------------ chat stream of reasoning chunks
ProcessReasoningChunk == ProcessChunkOf(ReasoningDetailChunks)

NextReasoning == ProcessReasoningChunk \/ Flush

SpecReasoning == Init /\ [][NextReasoning]_vars

\* ---------------------------------------------------- completion stream
\* a fresh doStream closure of the completion model
InitCompletion ==
    /\ InitStream
    /\ pc = "completing"
    /\ response = NoResponse
    /\ generated = None
    /\ usageData = None
    /\ tokenUsage = None
    /\ heap = <<>>
    /\ returned = <<>>
    /\ peer = None

CompletionProcessChunk ==
    /\ pc = "completing"
    /\ Len(delivered) < MaxChunks
    /\ \E c \in CompletionChunkSet :
           /\ Becomes(CompletionTransform(StreamState, c))
           /\ delivered' = Append(delivered, c)
    /\ UNCHANGED <<includeRawChunks, response, generated, usageData, tokenUsage,
                    heap, returned, peer >>

CompletionFlush ==
    /\ pc = "completing"
    /\ Becomes(CompletionFlushStream(StreamState))
    /\ UNCHANGED <<includeRawChunks, delivered, response, generated,
                    usageData, tokenUsage,
                    heap, returned, peer >>

\* a chat stream or a completion stream
InitStreams == Init \/ InitCompletion

NextStreams == ProcessChunk \/ Flush \/ CompletionProcessChunk \/ CompletionFlush

SpecStreams == InitStreams /\ [][NextStreams]_vars

\* --------------------------------------- a direct computeTokenUsage call
InitCompute ==
    /\ InitStream
    /\ pc = "idle"
    /\ response = NoResponse
    /\ generated = None
    /\ usageData \in {Some(u) : u \in UsageDataSet}
    /\ tokenUsage = None
    /\ heap = <<>>
    /\ returned = <<>>
    /\ peer = None

ComputeUsage ==
    /\ IsSome(usageData)
    /\ tokenUsage = None
    /\ tokenUsage' = Some(computeTokenUsage(Val(usageData)))
    /\ UNCHANGED << pc, includeRawChunks, delivered, events, genCount,
                    toolCalls, finishReason, usage, osmUsage, rawUsage,
                    accumulatedReasoningDetails,
                    reasoningDetailsAttachedToToolCall,
                    accumulatedFileAnnotations, textStarted, reasoningStarted,
                    textId, reasoningId, osmResponseId, provider, response,
                    generated, usageData, heap, returned, peer >>

NextCompute == ComputeUsage

SpecCompute == InitCompute /\ [][NextCompute]_vars

\* ------------------------- usage records as objects with an identity
\* A usage record is three objects: the record itself, which refers to its
\* inputTokens object and its outputTokens object, and to the raw object if
\* it has one.  Allocation appends the new objects to the heap.
AllocateUsage(h, value, rawRef) ==
    [ heap |-> h \o << value.inputTokens, value.outputTokens,
                       [ inputTokens |-> Len(h) + 1,
                         outputTokens |-> Len(h) + 2, raw |-> rawRef ] >>,
      root |-> Len(h) + 3 ]

\* computeTokenUsage(usage), usage being the object at address arg: the
\* object literals are new, raw is the argument itself
AllocateComputed(h, rets, arg) ==
    AllocateUsage(h, computeTokenUsage(h[arg]), Some(arg))

\* a plausible slip: emptyUsage hands out one shared record
AllocateEmptyUsage_Shared(h, rets) ==
    IF \E k \in 1..Len(rets) : rets[k].fn = "emptyUsage"
    THEN [ heap |-> h,
           root |-> rets[CHOOSE k \in 1..Len(rets) :
                             rets[k].fn = "emptyUsage"].root ]
    ELSE AllocateUsage(h, emptyUsage, None)

\* emptyUsage(): the object literals are new on every call
AllocateEmptyUsage(h, rets) == AllocateUsage(h, emptyUsage, None)

\* the usage record at an address, as a value
Deref(h, root) ==
    [ inputTokens |-> h[h[root].inputTokens],
      outputTokens |-> h[h[root].outputTokens],
      raw |-> IF h[root].raw = None THEN None ELSE Some(h[Val(h[root].raw)]) ]

\* a caller holding one usage object, before it called the normalizer
InitIdentity ==
    /\ InitStream
    /\ pc = "idle"
    /\ response = NoResponse
    /\ generated = None
    /\ usageData = None
    /\ tokenUsage = None
    /\ heap \in {<<u>> : u \in {FullUsage, PartialUsage}}
    /\ returned = <<>>
    /\ peer = None

IdentityUnchanged ==
    UNCHANGED << pc, includeRawChunks, delivered, events, genCount, toolCalls,
                 finishReason, usage, osmUsage, rawUsage,
                 accumulatedReasoningDetails,
                 reasoningDetailsAttachedToToolCall,
                 accumulatedFileAnnotations, textStarted, reasoningStarted,
                 textId, reasoningId, osmResponseId, provider, response,
                 generated, usageData, tokenUsage, peer >>

\* the caller calls computeTokenUsage on its usage object
CallComputeTokenUsage ==
    /\ heap # <<>>
    /\ Len(returned) < MaxCalls
    /\ LET r == AllocateComputed(heap, returned, 1)
       IN  /\ heap' = r.heap
           /\ returned' = Append(returned, [ fn |-> "computeTokenUsage",
                                              root |-> r.root,
                                              mutated |-> FALSE ])
    /\ IdentityUnchanged

\* the caller calls emptyUsage
CallEmptyUsage ==
    /\ heap # <<>>
    /\ Len(returned) < MaxCalls
    /\ LET r == AllocateEmptyUsage(heap, returned)
       IN  /\ heap' = r.heap
           /\ returned' = Append(returned, [ fn |-> "emptyUsage",
                                              root |-> r.root,
                                              mutated |-> FALSE ])
    /\ IdentityUnchanged

\* the caller writes a total into a record it got back (as doStream does
\* with Object.assign on its own usage record)
MutateReturned ==
    /\ \E k \in 1..Len(returned), part \in {"inputTokens", "outputTokens"} :
           /\ heap[heap[returned[k].root][part]].total # Some(9)
           /\ heap' = [heap EXCEPT ![heap[returned[k].root][part]].total = Some(9)]
           /\ returned' = [returned EXCEPT ![k].mutated = TRUE]
    /\ IdentityUnchanged

NextIdentity == CallComputeTokenUsage \/ CallEmptyUsage \/ MutateReturned

SpecIdentity == InitIdentity /\ [][NextIdentity]_vars

\* ================================================================ properties
EventIdx == 1..Len(events)

\* positions of the events of one type
Positions(type) == {i \in EventIdx : events[i].type = type}

Count(type) == Cardinality(Positions(type))

\* position of the first event of a type (0 if there is none)
FirstPosition(type) ==
    IF Positions(type) = {} THEN 0
    ELSE CHOOSE i \in Positions(type) : \A j \in Positions(type) : i <= j

\* C1: however many chunks were handled before the upstream ended, a stream
\* that was flushed holds exactly one finish event and it is the last event;
\* a stream that was not flushed holds none.
C1_ExactlyOneFinishLast ==
    /\ pc = "done" =>
           /\ Count("finish") = 1
           /\ events[Len(events)].type = "finish"
    /\ pc # "done" => Count("finish") = 0

\* a flushed stream that had open blocks and several chunks
C1_Witness ==
    /\ pc = "done"
    /\ Len(delivered) >= 2
    /\ Count("text-end") = 1
    /\ Count("reasoning-end") = 1
    /\ events[Len(events)].type = "finish"

\* C2: when a reasoning block was started before the first text-start, the
\* event right before that text-start is a reasoning-end and it is the only
\* reasoning-end emitted up to there.
C2_ReasoningEndBeforeFirstTextStart ==
    LET t == FirstPosition("text-start")
    IN  (t > 0 /\ \E j \in 1..(t - 1) : events[j].type = "reasoning-start")
        => /\ events[t - 1].type = "reasoning-end"
           /\ Cardinality({j \in 1..t : events[j].type = "reasoning-end"}) = 1

\* reasoning deltas of an earlier chunk, then the first text delta
C2_Witness ==
    LET t == FirstPosition("text-start")
    IN  /\ t > 2
        /\ events[t - 1].type = "reasoning-end"
        /\ events[t - 2].type = "reasoning-delta"
        /\ Len(delivered) >= 2
        /\ delivered[1].content = None

\* C3 (as claimed): after a text-start no reasoning-start and no
\* reasoning-delta is emitted.
C3_NoReasoningAfterTextStart ==
    \A i \in EventIdx : \A j \in EventIdx :
        (i < j /\ events[i].type = "text-start")
        => events[j].type \notin {"reasoning-start", "reasoning-delta"}

\* the id of every tool-call event names the accumulator that produced it:
\* the vendor ids of ChunkSet differ from index to index
ToolCallEventsOf(id) ==
    {i \in Positions("tool-call") : events[i].toolCallId = id}

\* C4 (as claimed): over the whole stream at most one tool-call event is
\* emitted for an accumulator.
C4_AtMostOneToolCallPerIndex ==
    \A i \in IndexDom :
        IsSome(toolCalls[i])
        => Cardinality(ToolCallEventsOf(Val(toolCalls[i]).id)) <= 1

\* ---- what the upstream delivered, read independently of the stream state
\* the chunks whose tool_calls the handler reaches
RECURSIVE DeliveredDeltas(_)
DeliveredDeltas(chunks) ==
    IF chunks = <<>> THEN <<>>
    ELSE LET c == Head(chunks)
         IN  (IF c.success /\ ~c.isError /\ c.hasChoice /\ c.hasDelta
              THEN c.tool_calls ELSE <<>>) \o DeliveredDeltas(Tail(chunks))

\* the index the k-th delivered delta is applied to: its own, or else the
\* highest index named so far (-1 when none was)
AppliedIndex(ds, k) ==
    IF IsSome(ds[k].index) THEN Val(ds[k].index)
    ELSE LET named == {Val(ds[j].index) : j \in {j \in 1..(k - 1) : IsSome(ds[j].index)}}
         IN  IF named = {} THEN -1
             ELSE CHOOSE m \in named : \A n \in named : n <= m

\* the argument fragments delivered for index i, in arrival order
FragmentsOf(i) ==
    LET ds == DeliveredDeltas(delivered)
        ks == SelectSeq([k \in 1..Len(ds) |-> k], LAMBDA k : AppliedIndex(ds, k) = i)
    IN  [n \in 1..Len(ks) |-> Coalesce(ds[ks[n]].arguments, <<>>)]

\* concatenation of the first n fragments
RECURSIVE Concat(_, _)
Concat(fragments, n) ==
    IF n = 0 THEN <<>> ELSE Concat(fragments, n - 1) \o fragments[n]

InputDeltasBefore(id, p) ==
    {j \in 1..(p - 1) : events[j].type = "tool-input-delta" /\ events[j].id = id}

\* C5: for an accumulator whose first fragment was not parsable JSON, the
\* buffer is the concatenation of the fragments delivered for its index; its
\* first tool-call event comes right after the tool-input-delta of the first
\* later fragment that makes the concatenation parsable, with that
\* concatenation as input; before such a fragment the open stream holds no
\* tool-call event for it.
C5_ToolCallAtFirstParsableFragment ==
    pc \in {"streaming", "done"} =>
    \A i \in IndexDom :
        IsSome(toolCalls[i]) =>
        LET acc == Val(toolCalls[i])
            F == FragmentsOf(i)
            completing == {k \in 2..Len(F) : IsParsableJson(Concat(F, k))}
            calls == ToolCallEventsOf(acc.id)
        IN  ~IsParsableJson(F[1]) =>
            /\ acc.arguments = Concat(F, Len(F))
            /\ IF completing = {}
               THEN pc = "streaming" => calls = {}
               ELSE LET k == CHOOSE k \in completing : \A m \in completing : k <= m
                        p == CHOOSE p \in calls : \A q \in calls : p <= q
                    IN  /\ calls # {}
                        /\ events[p].input = Concat(F, k)
                        /\ events[p - 1].type = "tool-input-delta"
                        /\ events[p - 1].id = acc.id
                        /\ Cardinality(InputDeltasBefore(acc.id, p)) = k - 1

\* an accumulator completed by its third fragment
C5_Witness ==
    \E i \in IndexDom :
        /\ IsSome(toolCalls[i])
        /\ Len(FragmentsOf(i)) = 3
        /\ ~IsParsableJson(Concat(FragmentsOf(i), 2))
        /\ IsParsableJson(Concat(FragmentsOf(i), 3))
        /\ Cardinality(ToolCallEventsOf(Val(toolCalls[i]).id)) = 1

\* the events a step appended
NewPositions == (Len(events) + 1)..Len(events')

FlushStep == pc = "streaming" /\ pc' = "done"

\* C6 (as claimed): when the flush resolves the finish reason to tool-calls,
\* every accumulator that was not sent is emitted as a tool-call event
\* before finish, with its buffer as input if that is parsable JSON and "{}"
\* otherwise, and every accumulator is marked sent afterwards.
C6_FlushForwardsEveryUnsent ==
    [][ (FlushStep /\ finishReason'.unified = "tool-calls") =>
        \A i \in IndexDom :
            IsSome(toolCalls[i]) =>
            /\ Val(toolCalls'[i]).sent
            /\ ~Val(toolCalls[i]).sent =>
                   \E p \in NewPositions :
                       /\ events'[p].type = "tool-call"
                       /\ events'[p].toolCallId = Val(toolCalls[i]).id
                       /\ events'[p].input =
                              IF IsParsableJson(Val(toolCalls[i]).arguments)
                              THEN Val(toolCalls[i]).arguments
                              ELSE EmptyObjectLiteral
                       /\ p < Len(events') ]_vars

NeverParsable(i) ==
    \A k \in 1..Len(FragmentsOf(i)) : ~IsParsableJson(Concat(FragmentsOf(i), k))

C8_OverrideExactlyWhen ==
    [][ FlushStep =>
        LET override ==
                /\ \E i \in IndexDom : IsSome(toolCalls[i])
                /\ \E k \in 1..Len(accumulatedReasoningDetails) :
                       /\ accumulatedReasoningDetails[k].type = "reasoning.encrypted"
                       /\ Truthy(accumulatedReasoningDetails[k].data)
                /\ finishReason.unified = "stop"
        IN  events'[Len(events')].finishReason =
                IF override
                THEN [unified |-> "tool-calls", raw |-> finishReason.raw]
                ELSE finishReason ]_vars

\* the result of the doGenerate call, when it returned one
Generated == Val(generated)

ResponseChoice == Head(response.choices)

\* C9: the non-streaming result has finish reason {tool-calls, raw stop} when
\* the response has finish_reason stop, a tool call and an Encrypted detail
\* with non-empty data; otherwise it has the plain mapping of finish_reason.
C9_GenerateOverride ==
    (IsSome(generated) /\ Generated.outcome = "result") =>
    LET m == ResponseChoice.message
        details == IF IsSome(m.reasoning_details) THEN Val(m.reasoning_details) ELSE <<>>
        override ==
            /\ ResponseChoice.finish_reason = Some("stop")
            /\ IsSome(m.tool_calls) /\ Len(Val(m.tool_calls)) >= 1
            /\ \E k \in 1..Len(details) :
                   /\ details[k].type = "reasoning.encrypted"
                   /\ IsSome(details[k].data) /\ Val(details[k].data) # ""
    IN  Generated.finishReason =
            IF override THEN [unified |-> "tool-calls", raw |-> Some("stop")]
            ELSE mapOsmFinishReason(ResponseChoice.finish_reason)

\* a result whose finish reason was overridden
C9_Witness ==
    /\ IsSome(generated)
    /\ Generated.outcome = "result"
    /\ ResponseChoice.finish_reason = Some("stop")
    /\ Generated.finishReason = [unified |-> "tool-calls", raw |-> Some("stop")]

ToolCallBlocks == {i \in 1..Len(Generated.content) : Generated.content[i].type = "tool-call"}

\* C10: in a stream the first tool-call event carries the accumulated
\* reasoning details and every later one carries no provider metadata, and
\* the attachment flag is set exactly when a tool-call event was emitted (so
\* it never goes back); in a non-streaming result the first tool-call block
\* carries the response's reasoning_details and the later ones nothing.
C10_OnlyFirstToolCallCarriesReasoning ==
    /\ \A p \in Positions("tool-call") :
           events[p].providerMetadata.kind =
               IF p = FirstPosition("tool-call") THEN "acc" ELSE "none"
    /\ reasoningDetailsAttachedToToolCall <=> Positions("tool-call") # {}
    /\ (IsSome(generated) /\ Generated.outcome = "result") =>
           \A p \in ToolCallBlocks :
               Generated.content[p].providerMetadata =
                   IF \A q \in ToolCallBlocks : p <= q
                   THEN [ kind |-> "response",
                          details |-> Coalesce(ResponseChoice.message.reasoning_details, <<>>) ]
                   ELSE NoMetadata

\* a flushed stream that emitted two tool calls after reasoning details were
\* accumulated
C10_Witness ==
    /\ pc = "done"
    /\ Count("tool-call") >= 2
    /\ events[FirstPosition("tool-call")].providerMetadata.details # <<>>
    /\ \E p \in Positions("tool-call") :
           /\ p > FirstPosition("tool-call")
           /\ events[p + 1].type = "finish"

\* ---------------------------------------------------------------- C11
\* the reasoning details of the chunks whose delta transform looked at
RECURSIVE ReasoningFragments(_)
ReasoningFragments(chunks) ==
    IF chunks = <<>> THEN <<>>
    ELSE LET c == Head(chunks)
         IN  (IF c.success /\ ~c.isError /\ c.hasChoice /\ c.hasDelta
              THEN c.reasoning_details ELSE <<>>)
             \o ReasoningFragments(Tail(chunks))

IsText(d) == d.type = "reasoning.text"

\* the fragments that begin an entry: every fragment that is not Text, and
\* every Text fragment that does not follow a Text fragment
RunStarts(F) ==
    {i \in 1..Len(F) : ~IsText(F[i]) \/ i = 1 \/ ~IsText(F[i - 1])}

\* the last fragment of the run that begins at i
RunEnd(F, i) ==
    IF ~IsText(F[i]) THEN i
    ELSE CHOOSE j \in i..Len(F) :
             /\ \A k \in i..j : IsText(F[k])
             /\ j = Len(F) \/ ~IsText(F[j + 1])

RECURSIVE RunText(_, _, _)
RunText(F, i, j) ==
    IF i > j THEN "" ELSE OrEmpty(F[i].text) \o RunText(F, i + 1, j)

\* a || b || ... over the run: the first non-empty value, else the last one
FirstNonEmpty(F, i, j, field) ==
    IF \E k \in i..j : Truthy(F[k][field])
    THEN F[CHOOSE k \in i..j : /\ Truthy(F[k][field])
                                /\ \A m \in i..(k - 1) : ~Truthy(F[m][field])][field]
    ELSE F[j][field]

\* the list the fragments F stand for: one entry per run
MergedRuns(F) ==
    [ n \in 1..Cardinality(RunStarts(F)) |->
        LET i == CHOOSE x \in RunStarts(F) :
                     Cardinality({y \in RunStarts(F) : y <= x}) = n
            j == RunEnd(F, i)
        IN  IF i = j THEN F[i]
            ELSE [ F[i] EXCEPT !.text = Some(RunText(F, i, j)),
                               !.signature = FirstNonEmpty(F, i, j, "signature"),
                               !.format = FirstNonEmpty(F, i, j, "format") ] ]

ChunkStep == Len(delivered') = Len(delivered) + 1

StepChunk == delivered'[Len(delivered')]

IsInvalidChunk(c) == ~c.success \/ c.isError

\* C12: a chunk that failed validation or is a vendor error payload appends
\* exactly one error event (after the raw event, if raw chunks are requested)
\* and nothing else, sets the finish reason to error, leaves the rest of the
\* stream state as it was and the stream open, so later chunks are handled as
\* if it had not arrived; and the flush of a stream still ends with finish.
C12_InvalidChunkIsNotFatal ==
    [][ /\ (ChunkStep /\ IsInvalidChunk(StepChunk)) =>
             /\ events' = events
                    \o (IF includeRawChunks
                        THEN <<[type |-> "raw", rawValue |-> StepChunk.rawValue]>>
                        ELSE <<>>)
                    \o <<[type |-> "error", error |-> StepChunk.rawValue]>>
             /\ finishReason'.unified = "error"
             /\ pc' = "streaming"
             /\ UNCHANGED << genCount, toolCalls, usage, osmUsage, rawUsage,
                             accumulatedReasoningDetails,
                             reasoningDetailsAttachedToToolCall,
                             accumulatedFileAnnotations, textStarted,
                             reasoningStarted, textId, reasoningId,
                             osmResponseId, provider >>
        /\ FlushStep => events'[Len(events')].type = "finish" ]_vars

\* a flushed stream whose first chunk was invalid and whose later chunk
\* produced text
C12_Witness ==
    /\ pc = "done"
    /\ Len(delivered) >= 2
    /\ IsInvalidChunk(delivered[1])
    /\ \E p \in EventIdx, q \in EventIdx :
           /\ p < q
           /\ events[p].type = "error"
           /\ events[q].type = "text-delta"
    /\ events[Len(events)].type = "finish"

\* ---------------------------------------------------------------- C13
\* the first tool-call delta of a chunk and the index transform resolves it to
FirstToolCallDelta(c) == c.tool_calls[1]

ResolvedIndex(d) == Coalesce(d.index, ArrayLength(toolCalls) - 1)

LacksRequiredField(d) ==
    d.type # Some("function") \/ ~IsSome(d.id) \/ ~IsSome(d.name)

\* a valid chunk whose first tool-call delta addresses an index without
\* accumulator and lacks the type, the id or the function name
ProtocolViolationStep ==
    /\ ChunkStep
    /\ ~IsInvalidChunk(StepChunk)
    /\ StepChunk.tool_calls # <<>>
    /\ ~IsSome(toolCalls[ResolvedIndex(FirstToolCallDelta(StepChunk))])
    /\ LacksRequiredField(FirstToolCallDelta(StepChunk))

\* C13: such a delta makes transform throw: no accumulator is created, no
\* tool event is emitted for the chunk, and a stream that threw emits
\* nothing further, in particular no finish.
C13_MalformedFirstDeltaIsFatal ==
    [][ /\ ProtocolViolationStep =>
             /\ pc' = "errored"
             /\ toolCalls' = toolCalls
             /\ \A p \in NewPositions :
                    events'[p].type \notin
                        {"tool-input-start", "tool-input-delta",
                         "tool-input-end", "tool-call", "finish"}
        /\ pc = "errored" => (events' = events /\ pc' = "errored")
        /\ pc' = "errored" =>
             \A p \in 1..Len(events') : events'[p].type # "finish" ]_vars

\* a stream that threw on a first delta without id after it had emitted events
C13_Witness ==
    /\ pc = "errored"
    /\ Len(delivered) >= 2
    /\ delivered[Len(delivered)].rawValue = "first-noid"
    /\ toolCalls[MaxIndex] = None
    /\ \E p \in EventIdx : events[p].type = "tool-call"

\* ---------------------------------------------------------------- C14
\* the chunks whose delta transform looked at
ReachesDelta(c) == c.success /\ ~c.isError /\ c.hasChoice /\ c.hasDelta

HasText(c) == ReachesDelta(c) /\ Truthy(c.content)

IsTextDelta(e) == e.type = "text-delta"

\* the non-empty text deltas delivered so far, in order
DeliveredText ==
    LET chunks == SelectSeq(delivered, HasText)
    IN  [k \in 1..Len(chunks) |-> Val(chunks[k].content)]

\* the deltas of the text-delta events emitted so far, in order
EmittedText ==
    LET deltas == SelectSeq(events, IsTextDelta)
    IN  [k \in 1..Len(deltas) |-> deltas[k].delta]

\* C14: a stream holds at most one text-start and at most one text-end;
\* text-start is there exactly when a non-empty text delta was delivered and
\* directly precedes the first text-delta; every non-empty text delta has its
\* text-delta, in order, with the id of text-start; text-end is there exactly
\* when the stream was flushed after text-start, follows every text-delta and
\* has the same id.
C14_TextBlockOpensAndClosesOnce ==
    /\ Count("text-start") <= 1
    /\ Count("text-end") <= 1
    /\ EmittedText = DeliveredText
    /\ Count("text-start") = 1 <=> DeliveredText # <<>>
    /\ Count("text-start") = 1 =>
           /\ FirstPosition("text-delta") = FirstPosition("text-start") + 1
           /\ \A p \in Positions("text-delta") \cup Positions("text-end") :
                  /\ events[p].id = events[FirstPosition("text-start")].id
                  /\ p > FirstPosition("text-start")
    /\ Count("text-end") = 1 <=> (pc = "done" /\ Count("text-start") = 1)
    /\ \A p \in Positions("text-end"), q \in Positions("text-delta") : q < p

\* a flushed stream with two text deltas
C14_Witness ==
    /\ pc = "done"
    /\ Len(DeliveredText) = 2
    /\ Count("text-delta") = 2
    /\ Count("text-start") = 1
    /\ Count("text-end") = 1

\* ---------------------------------------------------------------- C15
\* C15 (as claimed): a stream holds at most one reasoning-start and at most
\* one reasoning-end, whatever chunks arrive.
C15_ReasoningBlockOpensOnce ==
    /\ Count("reasoning-start") <= 1
    /\ Count("reasoning-end") <= 1

\* ---------------------------------------------------------------- C16
\* C16: after any sequence of chunks the accumulated list is the delivered
\* fragments with every run of consecutive Text fragments, within a chunk or
\* across chunks, merged into one entry (texts concatenated, first non-empty
\* signature and format kept) and every Encrypted or Summary fragment as an
\* entry of its own, in arrival order; so no two adjacent entries are Text.
C16_ConsecutiveTextMerged ==
    /\ accumulatedReasoningDetails = MergedRuns(ReasoningFragments(delivered))
    /\ \A n \in 1..(Len(accumulatedReasoningDetails) - 1) :
           ~(IsText(accumulatedReasoningDetails[n])
               /\ IsText(accumulatedReasoningDetails[n + 1]))

\* Text fragments with different signatures from different chunks were merged
\* into one entry that kept the first signature, and a Summary follows it
C16_Witness ==
    /\ Len(delivered) >= 3
    /\ Len(accumulatedReasoningDetails) = 2
    /\ accumulatedReasoningDetails[1] = TextDetail(Some("bc"), Some("s"), Some("f"))
    /\ accumulatedReasoningDetails[2] = SummaryDetail(Some("m"))

\* ---------------------------------------------------------------- C17
\* C17 (as claimed): over a whole stream at most one response-metadata event
\* carries the response id and at most one carries the model id.
C17_ResponseMetadataOnce ==
    /\ Cardinality({p \in Positions("response-metadata") : IsSome(events[p].id)}) <= 1
    /\ Cardinality({p \in Positions("response-metadata") : IsSome(events[p].modelId)}) <= 1

\* ---------------------------------------------------------------- C18
HasUsage(c) == c.success /\ ~c.isError /\ IsSome(c.usage)

\* the usage objects transform has merged so far, in order
DeliveredUsage ==
    LET chunks == SelectSeq(delivered, HasUsage)
    IN  [k \in 1..Len(chunks) |-> Val(chunks[k].usage)]

\* the value of the last element of vals that is known (None if none is)
RECURSIVE LastKnown(_)
LastKnown(vals) ==
    IF vals = <<>> THEN None
    ELSE IF IsSome(vals[Len(vals)]) THEN vals[Len(vals)]
    ELSE LastKnown(SubSeq(vals, 1, Len(vals) - 1))

PromptTokensSeen == [k \in 1..Len(DeliveredUsage) |-> DeliveredUsage[k].prompt_tokens]

CompletionTokensSeen ==
    [k \in 1..Len(DeliveredUsage) |-> DeliveredUsage[k].completion_tokens]

CacheWriteSeen ==
    [k \in 1..Len(DeliveredUsage) |->
        IF DeliveredUsage[k].hasPromptDetails
        THEN DeliveredUsage[k].cache_write_tokens ELSE None]

\* C18 (as claimed): in the finish event a usage field that some chunk made
\* known has the last known value; a later usage object that lacks the field
\* does not change it.
C18_UnknownFieldKeepsEarlierValue ==
    \A p \in Positions("finish") :
        /\ IsSome(LastKnown(PromptTokensSeen)) =>
               events[p].usage.inputTokens.total = LastKnown(PromptTokensSeen)
        /\ IsSome(LastKnown(CompletionTokensSeen)) =>
               events[p].usage.outputTokens.total = LastKnown(CompletionTokensSeen)
        /\ IsSome(LastKnown(CacheWriteSeen)) =>
               events[p].usage.inputTokens.cacheWrite = LastKnown(CacheWriteSeen)

\* ---------------------------------------------------------------- C19
\* C19: in the chat stream and in the completion stream, with raw chunks
\* requested the first event a chunk produces is the raw event with the
\* chunk's untouched value, whether the chunk is valid, failed validation or
\* is a vendor error, and the chunk produces no second raw event; without
\* the request, and at flush, no raw event is produced.
C19_RawEventFirstForEveryChunk ==
    [][ /\ SubSeq(events', 1, Len(events)) = events
        /\ (ChunkStep /\ includeRawChunks) =>
             /\ Len(events') > Len(events)
             /\ events'[Len(events) + 1] =
                    [type |-> "raw", rawValue |-> StepChunk.rawValue]
             /\ \A p \in NewPositions :
                    p > Len(events) + 1 => events'[p].type # "raw"
        /\ (~ChunkStep \/ ~includeRawChunks) =>
             \A p \in NewPositions : events'[p].type # "raw" ]_vars

\* a flushed stream with raw chunks requested that received an invalid chunk
\* and then a valid one
C19_Witness ==
    /\ includeRawChunks
    /\ pc = "done"
    /\ Len(delivered) = MaxChunks
    /\ IsInvalidChunk(delivered[1])
    /\ ~IsInvalidChunk(delivered[2])
    /\ Count("raw") = MaxChunks
    /\ Count("text-delta") >= 1

\* ---------------------------------------------------------------- C20
\* C20: for every usage object, computeTokenUsage returns total = the prompt
\* tokens (0 if absent), cacheRead = the cached tokens (0 if absent or if the
\* prompt details are absent) and noCache = total - cacheRead, negative when
\* cacheRead exceeds total.
C20_NoCacheIsTotalMinusCacheRead ==
    IsSome(tokenUsage) =>
        LET u == Val(usageData)
            r == Val(tokenUsage).inputTokens
            total == IF IsSome(u.prompt_tokens) THEN Val(u.prompt_tokens) ELSE 0
            cacheRead == IF u.hasPromptDetails /\ IsSome(u.cached_tokens)
                         THEN Val(u.cached_tokens) ELSE 0
        IN  /\ r.total = Some(total)
            /\ r.cacheRead = Some(cacheRead)
            /\ r.noCache = Some(total - cacheRead)
            /\ cacheRead > total => Val(r.noCache) < 0

\* a usage object without prompt_tokens whose cached tokens exceed the total
C20_Witness ==
    /\ IsSome(tokenUsage)
    /\ Val(usageData).prompt_tokens = None
    /\ Val(Val(tokenUsage).inputTokens.cacheRead) = MaxTokens
    /\ Val(Val(tokenUsage).inputTokens.noCache) = 0 - MaxTokens

\* ---------------------------------------------------------------- C21
\* C21: for every usage object, computeTokenUsage returns outputTokens.total =
\* the completion tokens (0 if absent), reasoning = the reasoning tokens (0,
\* not undefined, if absent or if the completion details are absent) and
\* text = total - reasoning.
C21_TextIsTotalMinusReasoning ==
    IsSome(tokenUsage) =>
        LET u == Val(usageData)
            r == Val(tokenUsage).outputTokens
            total == IF IsSome(u.completion_tokens) THEN Val(u.completion_tokens)
                     ELSE 0
            reasoning == IF u.hasCompletionDetails /\ IsSome(u.reasoning_tokens)
                         THEN Val(u.reasoning_tokens) ELSE 0
        IN  /\ r.total = Some(total)
            /\ r.reasoning = Some(reasoning)
            /\ r.text = Some(total - reasoning)

\* a usage object whose reasoning tokens are subtracted from the total
C21_Witness ==
    /\ IsSome(tokenUsage)
    /\ Val(usageData).completion_tokens = Some(MaxTokens)
    /\ Val(usageData).hasCompletionDetails
    /\ Val(usageData).reasoning_tokens = Some(1)
    /\ Val(tokenUsage).outputTokens.text = Some(MaxTokens - 1)

\* ---------------------------------------------------------------- C22
\* C22: inputTokens.cacheWrite is undefined when cache_write_tokens is absent
\* or null or the prompt details are absent, and the input number otherwise,
\* 0 included; noCache is the same whatever cache_write_tokens is.
C22_CacheWritePassedThrough ==
    IsSome(tokenUsage) =>
        LET u == Val(usageData)
            r == Val(tokenUsage).inputTokens
            total == IF IsSome(u.prompt_tokens) THEN Val(u.prompt_tokens) ELSE 0
            cacheRead == IF u.hasPromptDetails /\ IsSome(u.cached_tokens)
                         THEN Val(u.cached_tokens) ELSE 0
        IN  /\ (~u.hasPromptDetails \/ u.cache_write_tokens = None) =>
                   r.cacheWrite = None
            /\ (u.hasPromptDetails /\ IsSome(u.cache_write_tokens)) =>
                   r.cacheWrite = u.cache_write_tokens
            /\ r.noCache = Some(total - cacheRead)

\* a usage object whose cache_write_tokens is 0, with cached tokens present
C22_Witness ==
    /\ IsSome(tokenUsage)
    /\ Val(usageData).hasPromptDetails
    /\ Val(usageData).cache_write_tokens = Some(0)
    /\ Val(usageData).cached_tokens = Some(1)
    /\ Val(tokenUsage).inputTokens.cacheWrite = Some(0)

\* ---------------------------------------------------------------- C23
\* the objects a returned record is made of
OwnObjects(k) ==
    { returned[k].root, heap[returned[k].root].inputTokens,
      heap[returned[k].root].outputTokens }

\* C23: the records returned by different calls share no object of their
\* own; a record the caller did not write to is, whatever was written to the
\* others, still the value its call returned: for emptyUsage totals 0 and
\* everything else undefined, for computeTokenUsage the normalization of the
\* argument, so two calls on the same input are structurally equal.
C23_ReturnedRecordsAreFresh ==
    /\ \A j \in 1..Len(returned), k \in 1..Len(returned) :
           j # k => OwnObjects(j) \cap OwnObjects(k) = {}
    /\ \A k \in 1..Len(returned) :
           ~returned[k].mutated =>
               Deref(heap, returned[k].root) =
                   IF returned[k].fn = "emptyUsage" THEN emptyUsage
                   ELSE computeTokenUsage(heap[1])
    /\ heap # <<>> => heap[1] \in {FullUsage, PartialUsage}

\* two emptyUsage records, the first one written to, the second untouched
C23_Witness ==
    /\ Len(returned) >= 2
    /\ returned[1].fn = "emptyUsage"
    /\ returned[2].fn = "emptyUsage"
    /\ returned[1].mutated
    /\ ~returned[2].mutated
    /\ Deref(heap, returned[1].root).inputTokens.total = Some(9)

\* ---------------------------------------------------------------- C24
\* the group a content block belongs to, in the claimed order
BlockGroup(b) ==
    CASE b.type = "reasoning" -> 1
      [] b.type = "text" -> 2
      [] b.type = "tool-call" -> 3
      [] b.type = "file" -> 4
      [] b.type = "source" -> 5

BlocksOf(type) == SelectSeq(Generated.content, LAMBDA b : b.type = type)

\* the reasoning details of a list that have something to show
ShownDetails(details) == SelectSeq(details, LAMBDA d : IsSome(ReasoningChunkText(d)))

UrlCitations(annotations) == SelectSeq(annotations, LAMBDA a : a.type = "url_citation")

\* C24: in a non-streaming result no block of a later group precedes a block
\* of an earlier group (reasoning, text, tool-call, file, source), and each
\* group is what the message holds: the reasoning blocks come from
\* reasoning_details if that list is non-empty and else from the legacy
\* string, the text block is there iff content is non-empty, and tool calls,
\* images and URL citations each give one block, in the vendor's order.
C24_ContentBlocksInFixedOrder ==
    (IsSome(generated) /\ Generated.outcome = "result") =>
        LET content == Generated.content
            message == ResponseChoice.message
            details == Coalesce(message.reasoning_details, <<>>)
            calls == Coalesce(message.tool_calls, <<>>)
            citations == UrlCitations(Coalesce(message.annotations, <<>>))
        IN  /\ \A i \in 1..Len(content), j \in 1..Len(content) :
                   i < j => BlockGroup(content[i]) <= BlockGroup(content[j])
            /\ IF Len(details) > 0
               THEN /\ Len(BlocksOf("reasoning")) = Len(ShownDetails(details))
                    /\ \A k \in 1..Len(BlocksOf("reasoning")) :
                           BlocksOf("reasoning")[k].text =
                               Val(ReasoningChunkText(ShownDetails(details)[k]))
               ELSE IF Truthy(message.reasoning)
               THEN /\ Len(BlocksOf("reasoning")) = 1
                    /\ BlocksOf("reasoning")[1].text = Val(message.reasoning)
               ELSE BlocksOf("reasoning") = <<>>
            /\ BlocksOf("text") =
                   IF Truthy(message.content)
                   THEN <<[type |-> "text", text |-> Val(message.content)]>>
                   ELSE <<>>
            /\ Len(BlocksOf("tool-call")) = Len(calls)
            /\ \A k \in 1..Len(calls) :
                   /\ BlocksOf("tool-call")[k].toolName = calls[k].name
                   /\ IsSome(calls[k].id) =>
                          BlocksOf("tool-call")[k].toolCallId = Val(calls[k].id)
            /\ Len(BlocksOf("file")) = Len(message.images)
            /\ \A k \in 1..Len(message.images) :
                   BlocksOf("file")[k].data = message.images[k]
            /\ Len(BlocksOf("source")) = Len(citations)
            /\ \A k \in 1..Len(citations) :
                   BlocksOf("source")[k].url = citations[k].url

\* a result with blocks of all five groups, several in most of them
C24_Witness ==
    /\ IsSome(generated)
    /\ Generated.outcome = "result"
    /\ Len(BlocksOf("reasoning")) = 2
    /\ Len(BlocksOf("text")) = 1
    /\ Len(BlocksOf("tool-call")) = 2
    /\ Len(BlocksOf("file")) = 2
    /\ Len(BlocksOf("source")) = 2

\* ---------------------------------------------------------------- C25
\* C25: a response with a top-level error field makes doGenerate fail with an
\* API-call error carrying the vendor message, whether or not it has choices;
\* a response without error field and without choices makes it fail with a
\* no-content-generated error; a failed call returns no result, and every
\* other response gives a result.
C25_ErrorThenNoChoice ==
    IsSome(generated) =>
        /\ response.hasError =>
               /\ Generated.outcome = "APICallError"
               /\ Generated.message = response.errorMessage
        /\ (~response.hasError /\ response.choices = <<>>) =>
               Generated.outcome = "NoContentGeneratedError"
        /\ (~response.hasError /\ response.choices # <<>>) =>
               Generated.outcome = "result"
        /\ Generated.outcome # "result" =>
               /\ Generated.content = <<>>
               /\ Generated.providerMetadata = NoMetadata

\* the call failed on a payload that has an error field and no choices
C25_Witness ==
    /\ IsSome(generated)
    /\ response.hasError
    /\ response.choices = <<>>
    /\ Generated.outcome = "APICallError"
    /\ Generated.message = "vendor error"

\* ---------------------------------------------------------------- C26
\* usage chunks whose detail objects are present, absent, or present without
\* their token count
UsageDetailChunks ==
    MetadataChunks \cup FinishChunks \cup
    { [Chunk("usage-cachewrite") EXCEPT !.usage = Some(CacheWriteOnlyUsage),
                                        !.hasChoice = FALSE],
      [Chunk("content") EXCEPT !.content = Some("t")] }

ProcessUsageChunk == ProcessChunkOf(UsageDetailChunks)

InitUsage == Init \/ InitGenerate

NextUsage == ProcessUsageChunk \/ Flush \/ DoGenerate

\* streams over the usage chunks, and non-streaming calls
SpecUsage == InitUsage /\ [][NextUsage]_vars

CachedTokensReceived(usages) ==
    \E k \in 1..Len(usages) :
        usages[k].hasPromptDetails /\ IsSome(usages[k].cached_tokens)

ReasoningTokensReceived(usages) ==
    \E k \in 1..Len(usages) :
        usages[k].hasCompletionDetails /\ IsSome(usages[k].reasoning_tokens)

UpstreamCostReceived(usages) ==
    \E k \in 1..Len(usages) : IsSome(usages[k].upstream_inference_cost)

\* the optional sub-objects of a usage breakdown are exactly the received ones
OnlyReceivedDetails(breakdown, usages) ==
    /\ IsSome(breakdown.promptTokensDetails) <=> CachedTokensReceived(usages)
    /\ IsSome(breakdown.completionTokensDetails) <=> ReasoningTokensReceived(usages)
    /\ IsSome(breakdown.costDetails) <=> UpstreamCostReceived(usages)

\* C26 (as claimed): the provider usage breakdown of the chat finish event and
\* of the non-streaming result has promptTokensDetails only if a cached_tokens
\* value was received, completionTokensDetails only if a reasoning_tokens
\* value was received, and costDetails only if an upstream_inference_cost
\* value was received.
C26_UnpopulatedDetailsOmitted ==
    /\ \A p \in Positions("finish") :
           OnlyReceivedDetails(events[p].providerMetadata.usage, DeliveredUsage)
    /\ (IsSome(generated) /\ Generated.outcome = "result") =>
           OnlyReceivedDetails(Generated.providerMetadata.usage,
                               IF IsSome(response.usage)
                               THEN <<Val(response.usage)>> ELSE <<>>)

\* ---------------------------------------------------------------- C27
\* the state a doStream call declares before it returns its stream
FreshStreamState(raw) ==
    [ pc |-> "streaming", includeRawChunks |-> raw, events |-> <<>>,
      genCount |-> 0, toolCalls |-> EmptyToolCalls,
      finishReason |-> createFinishReason("other", None),
      usage |-> InitialUsage, osmUsage |-> InitialOsmUsage, rawUsage |-> None,
      accumulatedReasoningDetails |-> <<>>,
      reasoningDetailsAttachedToToolCall |-> FALSE,
      accumulatedFileAnnotations |-> <<>>,
      textStarted |-> FALSE, reasoningStarted |-> FALSE,
      textId |-> None, reasoningId |-> None,
      osmResponseId |-> None, provider |-> None ]

\* a plausible slip: the state is kept on the model instance, so the second
\* stream's handlers work on the variables of the first
PeerState_OnInstance == StreamState

\* the closure the second stream's handlers work on
PeerState == Val(peer).state

\* chunks that touch an accumulator, the flags, the usage and the details
ConcurrentChunks ==
    { [Chunk("meta") EXCEPT !.id = Some("resp1"), !.model = Some("model1"),
                            !.provider = Some("prov1"), !.usage = Some(FullUsage)],
      [Chunk("text-b") EXCEPT !.reasoning_details =
           <<TextDetail(Some("b"), Some("s"), Some("f"))>>],
      [Chunk("content") EXCEPT !.content = Some("t")],
      [Chunk("first-open0") EXCEPT
           !.tool_calls = <<FirstDelta(Some(0), Some(<<"{">>))>>],
      [Chunk("next-close") EXCEPT !.tool_calls = <<NextDelta(Some(0), Some(<<"}">>))>>] }

\* two doStream calls on one model instance, with different options
InitConcurrent ==
    /\ InitStream
    /\ pc = "streaming"
    /\ response = NoResponse
    /\ generated = None
    /\ usageData = None
    /\ tokenUsage = None
    /\ heap = <<>>
    /\ returned = <<>>
    /\ peer = Some([ state |-> FreshStreamState(~includeRawChunks),
                     delivered |-> <<>> ])

\* the first stream receives a chunk
ConcurrentProcessChunk ==
    /\ Len(delivered) < MaxConcurrentChunks
    /\ ProcessChunkOf(ConcurrentChunks)

\* the second stream receives a chunk
PeerProcessChunk ==
    /\ IsSome(peer)
    /\ Val(peer).state.pc = "streaming"
    /\ Len(Val(peer).delivered) < MaxConcurrentChunks
    /\ \E c \in ConcurrentChunks :
           peer' = Some([ state |-> Transform(PeerState, c),
                          delivered |-> Append(Val(peer).delivered, c) ])
    /\ UNCHANGED << pc, includeRawChunks, delivered, events, genCount, toolCalls,
                    finishReason, usage, osmUsage, rawUsage,
                    accumulatedReasoningDetails,
                    reasoningDetailsAttachedToToolCall,
                    accumulatedFileAnnotations, textStarted, reasoningStarted,
                    textId, reasoningId, osmResponseId, provider, response,
                    generated, usageData, tokenUsage, heap, returned >>

\* the second stream's upstream ends
PeerFlush ==
    /\ IsSome(peer)
    /\ Val(peer).state.pc = "streaming"
    /\ peer' = Some([ state |-> FlushStream(PeerState),
                      delivered |-> Val(peer).delivered ])
    /\ UNCHANGED << pc, includeRawChunks, delivered, events, genCount, toolCalls,
                    finishReason, usage, osmUsage, rawUsage,
                    accumulatedReasoningDetails,
                    reasoningDetailsAttachedToToolCall,
                    accumulatedFileAnnotations, textStarted, reasoningStarted,
                    textId, reasoningId, osmResponseId, provider, response,
                    generated, usageData, tokenUsage, heap, returned >>

NextConcurrent == ConcurrentProcessChunk \/ Flush \/ PeerProcessChunk \/ PeerFlush

SpecConcurrent == InitConcurrent /\ [][NextConcurrent]_vars

\* the state of a stream that receives the chunks alone, one after the other
RECURSIVE RunAlone(_, _)
RunAlone(s, chunks) ==
    IF chunks = <<>> THEN s
    ELSE Transform(RunAlone(s, SubSeq(chunks, 1, Len(chunks) - 1)),
                   chunks[Len(chunks)])

\* the state a stream run alone is in: after its chunks, or after its flush
AloneState(raw, chunks, flushed) ==
    IF flushed THEN FlushStream(RunAlone(FreshStreamState(raw), chunks))
    ELSE RunAlone(FreshStreamState(raw), chunks)

\* C27: under every interleaving of the chunk deliveries and flushes of two
\* chat streams of one model instance, the events and the whole closure state
\* (accumulators, flags, usage, reasoning details) of each stream are the
\* ones the stream has when it runs alone on its own chunks.
C27_ConcurrentStreamsIndependent ==
    IsSome(peer) =>
        /\ StreamState = AloneState(includeRawChunks, delivered, pc = "done")
        /\ Val(peer).state =
               AloneState(~includeRawChunks, Val(peer).delivered,
                          Val(peer).state.pc = "done")

\* both streams have received two chunks, different ones; the first has sent
\* a tool call and is flushed, the second has an open text block and is not
C27_Witness ==
    /\ IsSome(peer)
    /\ Len(delivered) = 2
    /\ Len(Val(peer).delivered) = 2
    /\ pc = "done"
    /\ IsSome(toolCalls[0])
    /\ Val(toolCalls[0]).sent
    /\ Val(peer).state.pc = "streaming"
    /\ Val(peer).state.textStarted
    /\ IsSome(Val(peer).state.usage.inputTokens.total)
    /\ usage.inputTokens.total = None

\* ---------------------------------------------------------------- C28
\* first deltas with complete, numeric, absent, empty and open arguments
AtomicToolCallChunks ==
    { [Chunk("first-full") EXCEPT !.tool_calls =
           <<FirstDelta(Some(0), Some(<<"{", "}">>))>>],
      [Chunk("first-number") EXCEPT !.tool_calls =
           <<FirstDelta(Some(MaxIndex), Some(<<"1">>))>>],
      [Chunk("first-absent") EXCEPT !.tool_calls = <<FirstDelta(Some(0), None)>>],
      [Chunk("first-empty") EXCEPT !.tool_calls =
           <<FirstDelta(Some(MaxIndex), Some(<<>>))>>],
      [Chunk("first-open") EXCEPT !.tool_calls =
           <<FirstDelta(Some(0), Some(<<"{">>))>>],
      [Chunk("first-full-noindex") EXCEPT !.tool_calls =
           <<FirstDelta(None, Some(<<"{", "}">>))>>],
      [Chunk("parallel-mixed") EXCEPT !.tool_calls =
           << FirstDelta(Some(0), Some(<<"{", "}">>)),
              FirstDelta(Some(MaxIndex), Some(<<"{">>)) >>],
      [Chunk("next-close") EXCEPT !.tool_calls = <<NextDelta(Some(0), Some(<<"}">>))>>],
      [Chunk("text-a") EXCEPT !.reasoning_details =
           <<TextDetail(Some("a"), None, None)>>],
      [Chunk("finish-tools") EXCEPT !.finish_reason = Some("tool_calls")] }

ProcessAtomicToolCall == ProcessChunkOf(AtomicToolCallChunks)

NextAtomic == ProcessAtomicToolCall \/ Flush

\* streams whose tool calls start in every way a first delta can
SpecAtomic == Init /\ [][NextAtomic]_vars

IsToolEvent(e) ==
    e.type \in {"tool-input-start", "tool-input-delta", "tool-input-end", "tool-call"}

\* type, id and payload of a tool event
ToolEventCore(e) ==
    CASE e.type = "tool-input-start" -> <<e.type, e.id, <<e.toolName>>>>
      [] e.type = "tool-input-delta" -> <<e.type, e.id, e.delta>>
      [] e.type = "tool-input-end" -> <<e.type, e.id, <<>>>>
      [] e.type = "tool-call" -> <<e.type, e.toolCallId, <<e.toolName>> \o e.input>>

\* the tool events of the step, in order
NewToolEvents ==
    LET new == SelectSeq(SubSeq(events', Len(events) + 1, Len(events')), IsToolEvent)
    IN  [k \in 1..Len(new) |-> ToolEventCore(new[k])]

DeltaArguments(d) == Coalesce(d.arguments, <<>>)

\* what a complete first delta is claimed to emit, and an incomplete one
AtomicEvents(d) ==
    IF IsParsableJson(DeltaArguments(d))
    THEN << <<"tool-input-start", Val(d.id), <<Val(d.name)>>>>,
            <<"tool-input-delta", Val(d.id), DeltaArguments(d)>>,
            <<"tool-input-end", Val(d.id), <<>>>>,
            <<"tool-call", Val(d.id), <<Val(d.name)>> \o DeltaArguments(d)>> >>
    ELSE <<>>

RECURSIVE AtomicEventsOfAll(_)
AtomicEventsOfAll(deltas) ==
    IF deltas = <<>> THEN <<>>
    ELSE AtomicEvents(Head(deltas)) \o AtomicEventsOfAll(Tail(deltas))

\* a valid chunk all of whose tool-call deltas are well-formed first deltas
\* for different indexes
FirstDeltasStep ==
    /\ ChunkStep
    /\ ReachesDelta(StepChunk)
    /\ StepChunk.tool_calls # <<>>
    /\ \A k \in 1..Len(StepChunk.tool_calls) :
           /\ ~IsSome(toolCalls[ResolvedIndex(StepChunk.tool_calls[k])])
           /\ ~LacksRequiredField(StepChunk.tool_calls[k])
    /\ \A j, k \in 1..Len(StepChunk.tool_calls) :
           j # k => ResolvedIndex(StepChunk.tool_calls[j])
                       # ResolvedIndex(StepChunk.tool_calls[k])

\* C28: a first delta for an index whose arguments are parsable JSON makes
\* the chunk emit tool-input-start, one tool-input-delta with the whole
\* argument string, tool-input-end and tool-call, in this order and with the
\* accumulator's id, and marks the accumulator sent; a first delta whose
\* arguments are absent, empty or not parsable emits no tool event and leaves
\* the accumulator unsent.
C28_CompleteFirstDeltaEmitsAtOnce ==
    [][ FirstDeltasStep =>
        /\ NewToolEvents = AtomicEventsOfAll(StepChunk.tool_calls)
        /\ \A k \in 1..Len(StepChunk.tool_calls) :
               LET d == StepChunk.tool_calls[k]
                   acc == toolCalls'[ResolvedIndex(d)]
               IN  /\ IsSome(acc)
                   /\ Val(acc).id = Val(d.id)
                   /\ Val(acc).arguments = DeltaArguments(d)
                   /\ Val(acc).sent = IsParsableJson(DeltaArguments(d))
                   /\ Val(acc).inputStarted = IsParsableJson(DeltaArguments(d))
      ]_vars

\* one chunk started a complete and an open tool call: four tool events for
\* the first, none for the second
C28_Witness ==
    /\ Len(delivered) = 1
    /\ Len(delivered[1].tool_calls) = 2
    /\ Count("tool-call") = 1
    /\ Count("tool-input-start") = 1
    /\ IsSome(toolCalls[0]) /\ Val(toolCalls[0]).sent
    /\ IsSome(toolCalls[MaxIndex]) /\ ~Val(toolCalls[MaxIndex]).sent

\* ---------------------------------------------------------------- C29
\* ids of the unsent accumulators of the array from index i on, in index order
RECURSIVE UnsentFrom(_)
UnsentFrom(i) ==
    IF i > MaxIndex THEN <<>>
    ELSE (IF IsSome(toolCalls[i]) /\ ~Val(toolCalls[i]).sent
          THEN <<Val(toolCalls[i]).id>> ELSE <<>>) \o UnsentFrom(i + 1)

\* type of each event of the step, with the call id for a tool-call event
NewEventKinds ==
    [ k \in 1..(Len(events') - Len(events)) |->
        LET e == events'[Len(events) + k]
        IN  <<e.type, IF e.type = "tool-call" THEN e.toolCallId ELSE "">> ]

\* C29: the flush emits, in this order, one tool-call event per unsent
\* accumulator of the array in index order if the final finish reason (after
\* the override) is tool-calls, reasoning-end if a reasoning block is open,
\* text-end if a text block is open, and finish; nothing else.
C29_FlushOrder ==
    [][ FlushStep =>
        LET forced == IF finishReason'.unified = "tool-calls"
                      THEN UnsentFrom(0) ELSE <<>>
        IN  NewEventKinds =
                [k \in 1..Len(forced) |-> <<"tool-call", forced[k]>>]
                \o (IF reasoningStarted THEN << <<"reasoning-end", "">> >> ELSE <<>>)
                \o (IF textStarted THEN << <<"text-end", "">> >> ELSE <<>>)
                \o << <<"finish", "">> >>
      ]_vars

\* a flush that overrode stop, forced a tool call and closed the reasoning
C29_Witness ==
    /\ pc = "done"
    /\ Len(events) >= 3
    /\ finishReason = [unified |-> "tool-calls", raw |-> Some("stop")]
    /\ events[Len(events) - 2].type = "tool-call"
    /\ events[Len(events) - 2].input = EmptyObjectLiteral
    /\ events[Len(events) - 1].type = "reasoning-end"
    /\ events[Len(events)].type = "finish"

\* ---------------------------------------------------------------- C30
\* chunks that carry every kind of fragment at once, and chunks without delta
CombinedChunks ==
    { [Chunk("all") EXCEPT
           !.id = Some("resp1"), !.model = Some("model1"),
           !.reasoning_details = <<TextDetail(Some("a"), None, None)>>,
           !.content = Some("t"),
           !.annotations = << [type |-> "url_citation", url |-> "u", hasFile |-> FALSE],
                              [type |-> "file", url |-> "", hasFile |-> TRUE] >>,
           !.tool_calls = <<FirstDelta(Some(0), Some(<<"{", "}">>))>>,
           !.images = <<"img">>],
      [Chunk("all-legacy") EXCEPT
           !.model = Some("model1"), !.reasoning = Some("r"),
           !.content = Some("t"),
           !.annotations = << [type |-> "url_citation", url |-> "u", hasFile |-> FALSE] >>,
           !.tool_calls = << FirstDelta(Some(MaxIndex), Some(<<"{">>)),
                             NextDelta(Some(MaxIndex), Some(<<"}">>)) >>,
           !.images = <<"img", "img2">>],
      [Chunk("reasoning+tool") EXCEPT
           !.reasoning_details = <<EncryptedDetail(Some("e"))>>,
           !.tool_calls = <<FirstDelta(Some(0), Some(<<"{">>))>>],
      [Chunk("no-delta") EXCEPT
           !.id = Some("resp1"), !.model = Some("model1"),
           !.usage = Some(PartialUsage), !.finish_reason = Some("stop"),
           !.hasDelta = FALSE],
      [Chunk("no-choice") EXCEPT !.id = Some("resp1"), !.hasChoice = FALSE],
      [Chunk("content") EXCEPT !.content = Some("t")],
      [Chunk("next-close") EXCEPT !.tool_calls = <<NextDelta(Some(0), Some(<<"}">>))>>] }

ProcessCombinedChunk == ProcessChunkOf(CombinedChunks)

NextCombined == ProcessCombinedChunk \/ Flush

\* streams of chunks with several kinds of fragment
SpecCombined == Init /\ [][NextCombined]_vars

\* the place of an event type in the claimed order of one chunk's events
EventGroup(type) ==
    CASE type = "raw" -> 0
      [] type = "response-metadata" -> 1
      [] type \in {"reasoning-start", "reasoning-delta"} -> 2
      [] type \in {"reasoning-end", "text-start", "text-delta"} -> 3
      [] type = "source" -> 4
      [] type \in {"tool-input-start", "tool-input-delta", "tool-input-end",
                   "tool-call"} -> 5
      [] type = "file" -> 6
      [] OTHER -> 7

\* C30: the events one valid chunk produces are ordered response-metadata,
\* reasoning events, text events with the reasoning-end that closes the
\* reasoning, source events, tool events, file events (after the raw event,
\* if one was requested), and no other event is produced; a chunk without
\* choice or without delta produces no event other than raw and
\* response-metadata.
C30_ChunkEventOrder ==
    [][ (ChunkStep /\ ~IsInvalidChunk(StepChunk)) =>
        /\ \A p, q \in NewPositions :
               p < q => EventGroup(events'[p].type) <= EventGroup(events'[q].type)
        /\ \A p \in NewPositions : EventGroup(events'[p].type) <= 6
        /\ ~ReachesDelta(StepChunk) =>
               \A p \in NewPositions : EventGroup(events'[p].type) <= 1
      ]_vars

\* the first chunk carried all kinds of fragment and produced an event of
\* every group, the file event last; a chunk without delta came second and
\* produced response-metadata only
C30_Witness ==
    /\ Len(delivered) = 2
    /\ delivered[1].rawValue = "all"
    /\ delivered[2].rawValue = "no-delta"
    /\ \A g \in 1..6 : \E p \in EventIdx : EventGroup(events[p].type) = g
    /\ events[Len(events) - 2].type = "file"
    /\ events[Len(events) - 1].type = "response-metadata"
    /\ events[Len(events)].type = "response-metadata"
    /\ finishReason.unified = "stop"

\* ---------------------------------------------------------------- C31
FileAnnotation(name, hasFile) == [type |-> "file", url |-> name, hasFile |-> hasFile]

UrlCitation(url) == [type |-> "url_citation", url |-> url, hasFile |-> FALSE]

\* chunks with file annotations of two files, with and without the file
\* object, and url citations
AnnotationChunks ==
    { [Chunk("file-1") EXCEPT !.annotations = <<FileAnnotation("f1", TRUE)>>],
      [Chunk("file-2") EXCEPT !.annotations = <<FileAnnotation("f2", TRUE)>>],
      [Chunk("file-nohash") EXCEPT !.annotations = <<FileAnnotation("f3", FALSE)>>],
      [Chunk("url-1") EXCEPT !.annotations = <<UrlCitation("u1")>>],
      [Chunk("mixed") EXCEPT !.content = Some("t"),
           !.annotations = << FileAnnotation("f2", TRUE), UrlCitation("u2"),
                              FileAnnotation("f3", FALSE), FileAnnotation("f1", TRUE),
                              UrlCitation("u1") >>],
      [Chunk("no-delta") EXCEPT !.finish_reason = Some("stop"), !.hasDelta = FALSE],
      [Chunk("schema-fail") EXCEPT !.success = FALSE] }

ProcessAnnotationChunk == ProcessChunkOf(AnnotationChunks)

NextAnnotations == ProcessAnnotationChunk \/ Flush

\* streams of chunks with annotations
SpecAnnotations == Init /\ [][NextAnnotations]_vars

\* the annotations of the first n delivered chunks that transform looked at
RECURSIVE AnnotationsUpTo(_)
AnnotationsUpTo(n) ==
    IF n = 0 THEN <<>>
    ELSE AnnotationsUpTo(n - 1)
             \o (IF ReachesDelta(delivered[n]) THEN delivered[n].annotations ELSE <<>>)

DeliveredAnnotations == AnnotationsUpTo(Len(delivered))

IsSource(e) == e.type = "source"

\* C31: the accumulated file annotations are the delivered file annotations
\* that have a file with hash and name, in arrival order, and the finish
\* event carries exactly them; the source events are the delivered url
\* citations, one each and in arrival order; an annotation produces no other
\* event.
C31_FileAnnotationsOnlyInFinish ==
    LET files == SelectSeq(DeliveredAnnotations,
                           LAMBDA a : a.type = "file" /\ a.hasFile)
        citations == SelectSeq(DeliveredAnnotations,
                               LAMBDA a : a.type = "url_citation")
        sources == SelectSeq(events, IsSource)
    IN  /\ accumulatedFileAnnotations = files
        /\ \A p \in Positions("finish") :
               events[p].providerMetadata.annotations = files
        /\ Len(sources) = Len(citations)
        /\ \A k \in 1..Len(sources) :
               /\ sources[k].url = citations[k].url
               /\ sources[k].id = citations[k].url
        /\ \A p \in EventIdx :
               events[p].type \in {"raw", "error", "source", "text-start",
                                   "text-delta", "text-end", "finish"}

\* file annotations of two chunks arrived out of name order around citations
\* and a file annotation without file object; the stream was flushed
C31_Witness ==
    /\ pc = "done"
    /\ Len(delivered) = 2
    /\ delivered[1].rawValue = "mixed"
    /\ delivered[2].rawValue = "file-2"
    /\ Count("source") = 2
    /\ events[Len(events)].providerMetadata.annotations =
           << FileAnnotation("f2", TRUE), FileAnnotation("f1", TRUE),
              FileAnnotation("f2", TRUE) >>

\* ---------------------------------------------------------------- C32
\* the deltas of the tool-input-delta events for an id among the first n
\* events, concatenated
RECURSIVE InputDeltaText(_, _)
InputDeltaText(id, n) ==
    IF n = 0 THEN <<>>
    ELSE InputDeltaText(id, n - 1)
             \o (IF events[n].type = "tool-input-delta" /\ events[n].id = id
                 THEN events[n].delta ELSE <<>>)

\* C32 (as claimed): for each tool-call index the concatenation of the deltas
\* of its tool-input-delta events equals the accumulator's argument buffer,
\* the fragment of the chunk that created the accumulator included.
C32_InputDeltasCoverBuffer ==
    \A i \in IndexDom :
        IsSome(toolCalls[i]) =>
            InputDeltaText(Val(toolCalls[i]).id, Len(events))
                = Val(toolCalls[i]).arguments

\* ---------------------------------------------------------------- C33
SetsFinishReason(c) == IsInvalidChunk(c) \/ (c.hasChoice /\ IsSome(c.finish_reason))

\* the finish reason the latest of the first n delivered chunks that sets one
\* has set
RECURSIVE LatestFinishReason(_)
LatestFinishReason(n) ==
    IF n = 0 THEN createFinishReason("other", None)
    ELSE IF IsInvalidChunk(delivered[n]) THEN createFinishReason("error", None)
    ELSE IF SetsFinishReason(delivered[n])
    THEN mapOsmFinishReason(delivered[n].finish_reason)
    ELSE LatestFinishReason(n - 1)

\* C33: until the flush, the current finish reason is 'other' if no chunk
\* set one and otherwise the value of the latest chunk that failed
\* validation, was a vendor error or carried a finish_reason; a stream
\* flushed without such a chunk finishes with unified reason 'other'.
C33_LatestChunkSetsFinishReason ==
    /\ pc \in {"streaming", "errored"} =>
           finishReason = LatestFinishReason(Len(delivered))
    /\ (pc = "done" /\ \A k \in 1..Len(delivered) : ~SetsFinishReason(delivered[k])) =>
           /\ events[Len(events)].type = "finish"
           /\ events[Len(events)].finishReason.unified = "other"

\* an error overwrote a finish_reason and a later finish_reason the error
C33_Witness ==
    /\ pc = "streaming"
    /\ Len(delivered) = 3
    /\ delivered[1].finish_reason = Some("stop")
    /\ IsInvalidChunk(delivered[2])
    /\ delivered[3].finish_reason = Some("tool_calls")
    /\ finishReason.unified = "tool-calls"
    /\ Count("error") = 1

\* ---------------------------------------------------------------- C34
\* positions of the start, delta and end events of a kind of block
BlockPositions(kind) ==
    {p \in EventIdx : events[p].type \in {kind \o "-start", kind \o "-delta",
                                          kind \o "-end"}}

\* the last event of the kind before position p (0 if there is none)
PreviousOfKind(kind, p) ==
    IF \E q \in BlockPositions(kind) : q < p
    THEN CHOOSE q \in BlockPositions(kind) :
             /\ q < p
             /\ \A r \in BlockPositions(kind) : r < p => r <= q
    ELSE 0

\* the events of a kind read start, deltas, end, start, deltas, end, ...,
\* every delta with the id of the event before it
Balanced(kind) ==
    /\ \A p \in BlockPositions(kind) :
           LET q == PreviousOfKind(kind, p)
           IN  IF events[p].type = kind \o "-start"
               THEN q = 0 \/ events[q].type = kind \o "-end"
               ELSE /\ q # 0
                    /\ events[q].type \in {kind \o "-start", kind \o "-delta"}
                    /\ events[p].type = kind \o "-delta" => events[p].id = events[q].id
    /\ LET last == PreviousOfKind(kind, Len(events) + 1)
       IN  last # 0 => events[last].type = kind \o "-end"

\* C34: in an output that ends with finish, every reasoning-start and every
\* text-start is followed by exactly one end of its kind before the next
\* start of the kind and before finish, and every reasoning-delta and
\* text-delta lies between the start and the end of a block of its kind and
\* carries the id of that block's start.
C34_BlocksBalanced ==
    pc = "done" =>
        /\ Balanced("reasoning")
        /\ Balanced("text")
        /\ Count("text-start") = Count("text-end")
        /\ Count("reasoning-start") = Count("reasoning-end")
        /\ \A p \in BlockPositions("reasoning") \cup BlockPositions("text") :
               p < Len(events)

\* a flushed stream with two reasoning blocks around the start of the text
C34_Witness ==
    /\ pc = "done"
    /\ Count("reasoning-start") = 2
    /\ Count("reasoning-end") = 2
    /\ Count("text-start") = 1
    /\ Count("text-end") = 1
    /\ Count("reasoning-delta") >= 2

\* ---------------------------------------------------------------- C35
\* positions of the events of a type that carry a tool-call id
InputPositions(type, id) == {q \in Positions(type) : events[q].id = id}

\* C35 (as claimed): every tool-call event is preceded by one
\* tool-input-start for its id, then the tool-input-delta events for the id,
\* then one tool-input-end for the id, and no tool-input-delta for the id
\* comes after the tool-input-end or after the tool-call event.
C35_ToolCallAfterCompleteInput ==
    \A p \in Positions("tool-call") :
        LET id == events[p].toolCallId
            starts == {q \in InputPositions("tool-input-start", id) : q < p}
            ends == {q \in InputPositions("tool-input-end", id) : q < p}
            deltas == InputPositions("tool-input-delta", id)
        IN  /\ Cardinality(starts) = 1
            /\ Cardinality(ends) = 1
            /\ \A s \in starts, d \in deltas, e \in ends : s < d /\ d < e
            /\ \A d \in deltas : d < p

\* ---------------------------------------------------------------- C36
\* C36 (as claimed): when one usage object U is received, the usage of the
\* chat finish event and the usage of the non-streaming result are both the
\* normalizer's record for U; when none is received, both are the empty
\* usage record (totals 0, every detail field and raw undefined).
C36_StreamAndGenerateAgreeOnUsage ==
    /\ \A p \in Positions("finish") :
           /\ Len(DeliveredUsage) = 1 =>
                  events[p].usage = computeTokenUsage(DeliveredUsage[1])
           /\ Len(DeliveredUsage) = 0 => events[p].usage = emptyUsage
    /\ (IsSome(generated) /\ Generated.outcome = "result") =>
           Generated.usage = IF IsSome(response.usage)
                             THEN computeTokenUsage(Val(response.usage))
                             ELSE emptyUsage

\* ---------------------------------------------------------------- C37
\* error payloads and unparsable chunks that also carry what a valid chunk
\* carries, among chunks that fill every part of the stream state
ErrorPayloadChunks ==
    { [Chunk("error-full") EXCEPT
           !.isError = TRUE, !.id = Some("resp-err"), !.model = Some("model-err"),
           !.provider = Some("prov-err"), !.usage = Some(PartialUsage),
           !.finish_reason = Some("stop"), !.content = Some("x"),
           !.reasoning_details = <<EncryptedDetail(Some("x"))>>,
           !.annotations = <<[type |-> "file", url |-> "fx", hasFile |-> TRUE]>>,
           !.tool_calls = <<FirstDelta(Some(MaxIndex), Some(<<"{", "}">>))>>],
      [Chunk("schema-fail") EXCEPT !.success = FALSE, !.id = Some("resp-err"),
                                   !.usage = Some(PartialUsage)],
      [Chunk("meta") EXCEPT !.id = Some("resp1"), !.model = Some("model1"),
                            !.provider = Some("prov1"), !.usage = Some(FullUsage)],
      [Chunk("reasoning+file") EXCEPT
           !.reasoning_details = <<TextDetail(Some("a"), Some("s"), None)>>,
           !.annotations = <<[type |-> "file", url |-> "f1", hasFile |-> TRUE]>>],
      [Chunk("content") EXCEPT !.content = Some("t")],
      [Chunk("first-open") EXCEPT
           !.tool_calls = <<FirstDelta(Some(0), Some(<<"{">>))>>] }

ProcessErrorPayload == ProcessChunkOf(ErrorPayloadChunks)

NextErrors == ProcessErrorPayload \/ Flush

\* streams in which error payloads arrive at every stage
SpecErrors == Init /\ [][NextErrors]_vars

\* C37: handling a chunk that failed validation or is a vendor error
\* payload, whatever else the chunk carries, leaves the tool-call
\* accumulators, the accumulated reasoning details and file annotations, the
\* running usage, provider usage and raw usage, the block flags and ids, the
\* response id and the provider as they were.
C37_ErrorChunkTouchesOnlyFinishReason ==
    [][ (ChunkStep /\ IsInvalidChunk(StepChunk)) =>
        /\ toolCalls' = toolCalls
        /\ accumulatedReasoningDetails' = accumulatedReasoningDetails
        /\ reasoningDetailsAttachedToToolCall' = reasoningDetailsAttachedToToolCall
        /\ accumulatedFileAnnotations' = accumulatedFileAnnotations
        /\ usage' = usage /\ osmUsage' = osmUsage /\ rawUsage' = rawUsage
        /\ textStarted' = textStarted /\ reasoningStarted' = reasoningStarted
        /\ textId' = textId /\ reasoningId' = reasoningId
        /\ osmResponseId' = osmResponseId
        /\ provider' = provider
        /\ finishReason' = createFinishReason("error", None)
      ]_vars

\* an error payload with its own id, provider and usage arrived after the
\* stream had a response id, a provider, usage and an open accumulator, and
\* these are as before
C37_Witness ==
    /\ Len(delivered) = 3
    /\ delivered[3].rawValue = "error-full"
    /\ finishReason.unified = "error"
    /\ osmResponseId = Some("resp1")
    /\ provider = Some("prov1")
    /\ rawUsage = Some(FullUsage)
    /\ IsSome(toolCalls[0])
    /\ toolCalls[MaxIndex] = None

\* ---------------------------------------------------------------- C38
NextCompletion == CompletionProcessChunk \/ CompletionFlush

\* a completion stream alone
SpecCompletion == InitCompletion /\ [][NextCompletion]_vars

CompletionFlushStep == pc = "completing" /\ pc' = "done"

NewOfType(type) == {p \in NewPositions : events'[p].type = type}

\* C38 (as claimed): the completion stream ends with exactly one finish
\* event; a valid chunk whose first choice has a text emits exactly one
\* text-delta; a chunk that failed validation or is a vendor error emits one
\* error event, sets the finish reason to error and leaves usage and provider
\* as they were; and every text-delta emitted belongs to a text block opened
\* by a text-start with the same id.
C38_CompletionStreamProtocol ==
    [][ /\ CompletionFlushStep =>
               /\ Cardinality({p \in 1..Len(events') : events'[p].type = "finish"}) = 1
               /\ events'[Len(events')].type = "finish"
        /\ (ChunkStep /\ ~IsInvalidChunk(StepChunk)
                /\ StepChunk.hasChoice /\ IsSome(StepChunk.text)) =>
               Cardinality(NewOfType("text-delta")) = 1
        /\ (ChunkStep /\ IsInvalidChunk(StepChunk)) =>
               /\ Cardinality(NewOfType("error")) = 1
               /\ finishReason'.unified = "error"
               /\ UNCHANGED << usage, osmUsage, rawUsage, provider >>
        /\ \A p \in NewOfType("text-delta") :
               \E q \in 1..(p - 1) :
                   /\ events'[q].type = "text-start"
                   /\ events'[q].id = events'[p].id
      ]_vars

\* ---------------------------------------------------------------- C39
\* the reasoning_details a consumer reads from an event's provider metadata
\* now: an event of kind "acc" holds the accumulator array itself, which
\* transform keeps pushing to and merging into
SeenDetails(e) ==
    IF e.providerMetadata.kind = "acc"
    THEN accumulatedReasoningDetails
    ELSE e.providerMetadata.details

\* C39 (as claimed): the reasoning_details list seen through an emitted
\* tool-call or reasoning-end event is the list the accumulator held when the
\* event was emitted, whatever reasoning fragments arrive afterwards.
C39_EmittedDetailsAreFixed ==
    \A p \in Positions("tool-call") \cup Positions("reasoning-end") :
        SeenDetails(events[p]) = events[p].providerMetadata.details

\* ---------------------------------------------------------------- C40
\* C40 (as claimed): a tool-call delta without index is applied to the
\* accumulator with the highest index, a delta with an index to the
\* accumulator at that index, created if it was not there; and every
\* accumulator that was created, also one created by an index-less first
\* delta, counts as a tool call for the override at flush and is visited by
\* the forced emission.
C40_EveryAccumulatorCountsAtFlush ==
    [][ /\ (ChunkStep /\ ReachesDelta(StepChunk) /\ Len(StepChunk.tool_calls) = 1
                /\ pc' = "streaming") =>
               LET d == FirstToolCallDelta(StepChunk)
               IN  /\ IsSome(d.index) =>
                          /\ IsSome(toolCalls'[Val(d.index)])
                          /\ \A i \in IndexDom :
                                 i # Val(d.index) => toolCalls'[i] = toolCalls[i]
                   /\ (~IsSome(d.index) /\ ArrayLength(toolCalls) > 0) =>
                          \A i \in IndexDom :
                              i # ArrayLength(toolCalls) - 1 =>
                                  toolCalls'[i] = toolCalls[i]
        /\ FlushStep =>
               /\ ( /\ \E i \in IndexDom : IsSome(toolCalls[i])
                    /\ hasEncryptedReasoning(accumulatedReasoningDetails)
                    /\ finishReason.unified = "stop" ) =>
                      finishReason'.unified = "tool-calls"
               /\ finishReason'.unified = "tool-calls" =>
                      \A i \in IndexDom :
                          IsSome(toolCalls[i]) => Val(toolCalls'[i]).sent
      ]_vars
====
